---------------------------- MODULE Spec2Model ----------------------------
(***************************************************************************)
(* Model of harryosmar/cache-go: the in-process backend (MemoryCache), its *)
(* lists, key search and locking, the memcache and no-op backends, and the *)
(* cache-aside wrapper (GetFromCache, GetFromCacheWithDynamicTTL).         *)
(*                                                                         *)
(* Byte strings are sequences of one-character strings.  Time is a         *)
(* natural number of clock units advanced by Tick; a time.Duration is an   *)
(* integer number of the same units.                                       *)
(***************************************************************************)
EXTENDS Integers, Sequences, FiniteSets, TLC

(***************************************************************************)
(* Bounds of the model.                                                    *)
(***************************************************************************)
\* The clock runs from 0 to MaxTime.
MaxTime == 2
\* Increment / IncrementWithTTL are explored while the counter stays at or below MaxCounter.
MaxCounter == 3
\* Largest positive time-to-live handed to the backend.
MaxTTL == 1

(***************************************************************************)
(* Values.                                                                 *)
(***************************************************************************)
\* A nil []byte, distinct from every byte string (whose elements are single characters).
NilBytes == <<"nil">>

\* The nil error.
NoErr == "nil"

\* time.Time{}: the zero instant, far before every instant the clock shows.
ZeroTime == -1000

\* Keys used against the in-process backend.
MemKeys == {<<"t", ":", "1">>, <<"t", ":", "2">>}

\* The keys that patterns are matched against.
PatternKeys == {<<"t", ":", "1">>, <<"t", ":", "2">>, <<"u", ":", "1">>, <<"t", "/", "1">>}

\* Values handed to Store / StoreWithoutTTL.
StoreValues == {<<"x">>, <<"-", "1">>}

\* Durations handed to Store / IncrementWithTTL: a negative one and the positive ones.
TTLs == {-1} \cup (1 .. MaxTTL)

DigitChars == <<"0", "1", "2", "3", "4", "5", "6", "7", "8", "9">>

IsDigit(c) == \E i \in 1..10 : DigitChars[i] = c

DigitVal(c) == (CHOOSE i \in 1..10 : DigitChars[i] = c) - 1

RECURSIVE NatToBytes(_)
\* fmt.Sprintf("%d", n) for n >= 0.
NatToBytes(n) ==
    IF n < 10 THEN <<DigitChars[n + 1]>>
    ELSE NatToBytes(n \div 10) \o <<DigitChars[(n % 10) + 1]>>

\* int64ToBytes: the decimal ASCII rendering of n.
int64ToBytes(n) == IF n < 0 THEN <<"-">> \o NatToBytes(-n) ELSE NatToBytes(n)

RECURSIVE ScanDigits(_, _, _)
\* scanNumber + ParseInt: consume digits of b from position i, accumulating acc.
ScanDigits(b, i, acc) ==
    IF i <= Len(b) /\ IsDigit(b[i])
    THEN ScanDigits(b, i + 1, acc * 10 + DigitVal(b[i]))
    ELSE acc

\* bytesToInt64: fmt.Sscanf(string(b), "%d", &n) with the error dropped.  An optional sign,
\* then at least one digit; input after the digits is ignored; on a scan error n stays 0.
bytesToInt64(b) ==
    LET signed == Len(b) >= 1 /\ b[1] \in {"+", "-"}
        first  == IF signed THEN 2 ELSE 1
    IN  IF first <= Len(b) /\ IsDigit(b[first])
        THEN IF signed /\ b[1] = "-"
             THEN -ScanDigits(b, first, 0)
             ELSE ScanDigits(b, first, 0)
        ELSE 0

(***************************************************************************)
(* State.                                                                  *)
(***************************************************************************)
VARIABLES
    items,   \* MemoryCache.items: key -> CacheItem, a function on the stored keys
    now,     \* time.Now()
    last,    \* the last backend call and what it returned
    hist,    \* per key, the last call that wrote the key's entry
    w,       \* the running GetFromCache / GetFromCacheWithDynamicTTL call: its locals and calls
    repo,    \* which CacheRepo the wrapper was handed
    mc,      \* the memcached server behind MemcacheRepo: key -> item
    mu,      \* MemoryCache.mu: the thread holding the write lock and those holding read locks
    th       \* the threads calling MemoryCache concurrently: the call each is in and its locals

vars == <<items, now, last, hist, w, repo, mc, mu, th>>

\* What the in-process backend and the wrapper leave alone.
others == <<repo, mc, mu, th>>

\* CacheItem{value, expiresAt}
CacheItem(value, expiresAt) == [value |-> value, expiresAt |-> expiresAt]

\* m.items[key] = item
MapSet(m, key, item) ==
    [k \in (DOMAIN m) \cup {key} |-> IF k = key THEN item ELSE m[k]]

\* delete(m.items, key)
MapDelete(m, key) == [k \in (DOMAIN m) \ {key} |-> m[k]]

\* What a call returned: (value, found, err) of Get, (n, err) of the increments, err of the rest.
\* values is the []string of LRange and KeysByPattern.
Ret(value, found, err, n) ==
    [value |-> value, found |-> found, err |-> err, n |-> n, values |-> <<>>]

RetErr(err) == Ret(NilBytes, FALSE, err, 0)

\* ([]string, error)
RetList(values, err) == [RetErr(err) EXCEPT !.values = values]

\* The record of a call with its arguments besides the key: last.seq alternates so that
\* every call changes last.
CallArg(op, key, arg, ret) ==
    [seq |-> 1 - last.seq, op |-> op, key |-> key, arg |-> arg, ret |-> ret]

Call(op, key, ret) == CallArg(op, key, <<>>, ret)

\* The record of a write to a key that asked for no expiry.  n counts the increments
\* applied to the key one after the other since it was absent; it is 0 when the entry did
\* not arise that way.
\* elems is the list the entry stands for when list calls alone made it.
Write(op, value, n) ==
    [op |-> op, value |-> value, pos |-> FALSE, until |-> 0, n |-> n, elems |-> <<>>]

\* The record of a write that asked for the expiry now + exp; pos tells whether exp > 0.
WriteTTL(op, value, exp, n) ==
    [op |-> op, value |-> value, pos |-> exp > 0, until |-> now + exp, n |-> n,
     elems |-> <<>>]

NoWrite == Write("none", NilBytes, 0)

NewMemoryCache ==
    /\ items = << >>
    /\ now = 0
    /\ last = [seq |-> 0, op |-> "none", key |-> <<>>, arg |-> <<>>, ret |-> RetErr(NoErr)]
    /\ hist = [k \in MemKeys \cup PatternKeys |-> NoWrite]

\* The goroutines that call the backend at the same time.
Threads == {1, 2}

\* sync.RWMutex with no holder: writer is 0 or the thread holding Lock, readers the threads
\* holding RLock.
Unlocked == [writer |-> 0, readers |-> {}]

\* A thread that is in no call.
IdleThread ==
    [pc |-> "idle", op |-> "none", key |-> <<>>, arg |-> <<>>, item |-> CacheItem(NilBytes, ZeroTime),
     exists |-> FALSE, ret |-> RetErr(NoErr)]

(***************************************************************************)
(* MemoryCache operations.  Each runs under m.mu, so each is one step.     *)
(***************************************************************************)
Store(key, value, exp) ==
    /\ items' = MapSet(items, key, CacheItem(value, now + exp))
    /\ last' = Call("Store", key, RetErr(NoErr))
    /\ hist' = [hist EXCEPT ![key] = WriteTTL("Store", value, exp, 0)]
    /\ UNCHANGED <<now, w, others>>

StoreWithoutTTL(key, value) ==
    /\ items' = MapSet(items, key, CacheItem(value, ZeroTime))
    /\ last' = Call("StoreWithoutTTL", key, RetErr(NoErr))
    /\ hist' = [hist EXCEPT ![key] = Write("StoreWithoutTTL", value, 0)]
    /\ UNCHANGED <<now, w, others>>

\* Expired with the comparison off by one: an entry is dropped at its expiry instant.
Expired_AtExpiry(item, t) == item.expiresAt # ZeroTime /\ t >= item.expiresAt

\* Expired without the IsZero test: the zero instant counts as an expiry long past.
Expired_NoZeroTest(item, t) == t > item.expiresAt

\* time.Now().After(item.expiresAt) on an entry that has an expiry
Expired(item, t) == item.expiresAt # ZeroTime /\ t > item.expiresAt

Get(key) ==
    /\ IF key \notin DOMAIN items
       THEN /\ last' = Call("Get", key, Ret(NilBytes, FALSE, NoErr, 0))
            /\ UNCHANGED <<items, hist>>
       ELSE IF Expired(items[key], now)
       THEN /\ items' = MapDelete(items, key)
            /\ last' = Call("Get", key, Ret(NilBytes, FALSE, NoErr, 0))
            /\ hist' = [hist EXCEPT ![key] = Write("Evict", NilBytes, 0)]
       ELSE /\ last' = Call("Get", key, Ret(items[key].value, TRUE, NoErr, 0))
            /\ UNCHANGED <<items, hist>>
    /\ UNCHANGED <<now, w, others>>

\* Delete that empties the map, as Close does.
Delete_ClearsAll(key) ==
    /\ items' = << >>
    /\ last' = Call("Delete", key, RetErr(NoErr))
    /\ hist' = [hist EXCEPT ![key] = Write("Delete", NilBytes, 0)]
    /\ UNCHANGED <<now, w, others>>

Delete(key) ==
    /\ items' = MapDelete(items, key)
    /\ last' = Call("Delete", key, RetErr(NoErr))
    /\ hist' = [hist EXCEPT ![key] = Write("Delete", NilBytes, 0)]
    /\ UNCHANGED <<now, w, others>>

\* CounterOf that never reads the stored entry.
CounterOf_IgnoresEntry(key) == 0

\* The value both increments start from: 0 for a key not in the map, else the parsed entry.
CounterOf(key) == IF key \in DOMAIN items THEN bytesToInt64(items[key].value) ELSE 0

\* The length of the chain of increments on key that this increment extends.
ChainOf(key) ==
    IF key \notin DOMAIN items THEN 1
    ELSE IF hist[key].op \in {"Increment", "IncrementWithTTL"} /\ hist[key].n > 0
    THEN hist[key].n + 1
    ELSE 0

Increment(key) ==
    LET val == CounterOf(key) + 1
    IN  /\ val <= MaxCounter
        /\ items' = MapSet(items, key, CacheItem(int64ToBytes(val), ZeroTime))
        /\ last' = Call("Increment", key, Ret(NilBytes, FALSE, NoErr, val))
        /\ hist' = [hist EXCEPT ![key] = Write("Increment", int64ToBytes(val), ChainOf(key))]
        /\ UNCHANGED <<now, w, others>>

IncrementWithTTL(key, exp) ==
    LET val == CounterOf(key) + 1
    IN  /\ val <= MaxCounter
        /\ items' = MapSet(items, key, CacheItem(int64ToBytes(val), now + exp))
        /\ last' = Call("IncrementWithTTL", key, Ret(NilBytes, FALSE, NoErr, val))
        /\ hist' = [hist EXCEPT ![key] =
                        WriteTTL("IncrementWithTTL", int64ToBytes(val), exp, ChainOf(key))]
        /\ UNCHANGED <<now, w, others>>

\* The clock advances between calls.
Tick ==
    /\ now < MaxTime
    /\ now' = now + 1
    /\ UNCHANGED <<items, last, hist, w, others>>

(***************************************************************************)
(* The cache-aside wrapper.  TData values, their JSON form, and the        *)
(* caller-supplied functions.                                              *)
(***************************************************************************)
\* A nil *TData.
NilData == "nil"

\* Values of TData: d1 and d2 encode to distinct JSON texts; d1h is d1 with an unexported
\* field set, which encoding/json drops; dNaN holds a value json.Marshal rejects.
Data == {"d1", "d2", "d1h", "dNaN"}

\* json.Marshal(dataFromSource)
Marshal(d) ==
    CASE d = "d1"  -> [bytes |-> <<"{", "1", "}">>, err |-> NoErr]
      [] d = "d1h" -> [bytes |-> <<"{", "1", "}">>, err |-> NoErr]
      [] d = "d2"  -> [bytes |-> <<"{", "2", "}">>, err |-> NoErr]
      [] OTHER     -> [bytes |-> NilBytes, err |-> "marshal error"]

\* json.Unmarshal(bytesFromCache, &data)
Unmarshal(b) ==
    CASE b = <<"{", "1", "}">> -> [val |-> "d1", err |-> NoErr]
      [] b = <<"{", "2", "}">> -> [val |-> "d2", err |-> NoErr]
      [] OTHER                 -> [val |-> NilData, err |-> "unmarshal error"]

Prefixes == {<<"t">>, <<"u">>}

Ids == {1, 2}

\* fmt.Sprintf("%s:%v", prefixKey, id)
CacheKey(prefixKey, id) == prefixKey \o <<":">> \o int64ToBytes(id)

\* Durations handed to the wrapper: negative (do not cache), zero (cache forever), positive.
WrapTTLs == {-1, 0} \cup (1 .. MaxTTL)

\* The fnGetTtl functions tried: the constant ones and one that depends on the value.
TtlFns ==
    {[d \in Data |-> t] : t \in WrapTTLs}
        \cup {[d \in Data |-> IF d = "d2" THEN MaxTTL ELSE -1]}

\* What repo.Get can return: a hit with stored bytes (decodable or not), a miss, a failure.
GetOutcomes ==
    {[bytes |-> b, found |-> TRUE, err |-> NoErr] :
        b \in {<<"{", "1", "}">>, <<"{", "2", "}">>, <<"x">>}}
        \cup {[bytes |-> NilBytes, found |-> FALSE, err |-> NoErr],
              [bytes |-> NilBytes, found |-> FALSE, err |-> "cache error"]}

\* What fnCacheable can return: every pair of a value or nil and an error or nil.
SourceOutcomes == {[val |-> v, err |-> e] : v \in Data \cup {NilData}, e \in {NoErr, "source error"}}

\* What repo.Store / repo.StoreWithoutTTL can return.
StoreOutcomes == {NoErr, "store error"}

\* NocacheRepo: every method returns at once; Get finds nothing, Store keeps nothing.
NocacheGet(key) ==
    /\ last' = Call("Get", key, Ret(NilBytes, FALSE, NoErr, 0))
    /\ UNCHANGED <<items, hist, now, w, others>>

NocacheStore(key, value, exp) ==
    /\ last' = CallArg("Store", key, <<value, exp>>, RetErr(NoErr))
    /\ UNCHANGED <<items, hist, now, w, others>>

NocacheStoreWithoutTTL(key, value) ==
    /\ last' = CallArg("StoreWithoutTTL", key, <<value>>, RetErr(NoErr))
    /\ UNCHANGED <<items, hist, now, w, others>>

\* What repo.Get and repo.Store / repo.StoreWithoutTTL can return to the wrapper, by the
\* backend it was handed.
RepoGet ==
    IF repo = "nocache" THEN {[bytes |-> NilBytes, found |-> FALSE, err |-> NoErr]}
    ELSE GetOutcomes

RepoStore == IF repo = "nocache" THEN {NoErr} ELSE StoreOutcomes

\* One call the wrapper made: to the backend, to fnCacheable or to fnGetTtl, with the
\* arguments it passed and what came back.
CallRec(op, key, bytes, ttl, arg, found, err) ==
    [op |-> op, key |-> key, bytes |-> bytes, ttl |-> ttl, arg |-> arg,
     found |-> found, err |-> err]

\* No wrapper call is running.
IdleCall ==
    [pc |-> "idle", variant |-> "fixed", id |-> 1, prefixKey |-> <<>>, key |-> <<>>,
     exp |-> 0, fnGetTtl |-> [d \in Data |-> 0], err |-> NoErr, errType |-> "",
     dataFromSource |-> NilData, bytesFromSource |-> NilBytes, calls |-> <<>>,
     ret |-> [val |-> NilData, err |-> NoErr], logged |-> FALSE]

\* return val, err: the deferred function logs when the local err is not nil.
Return(rec, val, err) ==
    [rec EXCEPT !.pc = "done", !.ret = [val |-> val, err |-> err], !.logged = (rec.err # NoErr)]

\* A caller enters GetFromCache (variant "fixed") or GetFromCacheWithDynamicTTL ("dynamic").
GetFromCache(variant, id, prefixKey, exp, fnGetTtl) ==
    /\ w.pc = "idle"
    /\ w' = [IdleCall EXCEPT !.pc = "get", !.variant = variant, !.id = id,
                             !.prefixKey = prefixKey, !.key = CacheKey(prefixKey, id),
                             !.exp = exp, !.fnGetTtl = fnGetTtl]
    /\ UNCHANGED <<items, now, last, hist, others>>

\* WrapperGet that goes on to the source even after decoding a hit.
WrapperGet_IgnoresHit ==
    /\ w.pc = "get"
    /\ \E o \in RepoGet :
        LET u    == Unmarshal(o.bytes)
            call == CallRec("Get", w.key, o.bytes, 0, NilData, o.found, o.err)
        IN  w' = [w EXCEPT !.calls = Append(@, call),
                           !.err = IF o.found THEN u.err ELSE o.err,
                           !.pc = "source"]
    /\ UNCHANGED <<items, now, last, hist, others>>

\* bytesFromCache, found, err := repo.Get(ctx, key), and the decoding of a hit
WrapperGet ==
    /\ w.pc = "get"
    /\ \E o \in RepoGet :
        LET u    == Unmarshal(o.bytes)
            call == CallRec("Get", w.key, o.bytes, 0, NilData, o.found, o.err)
            rec  == [w EXCEPT !.calls = Append(@, call),
                              !.err = IF o.found THEN u.err ELSE o.err]
        IN  w' = IF o.found /\ u.err = NoErr
                 THEN Return(rec, u.val, NoErr)
                 ELSE [rec EXCEPT !.pc = "source"]
    /\ UNCHANGED <<items, now, last, hist, others>>

\* WrapperSource that hands back whatever the source returned next to its error, and
\* otherwise goes on to the store.
WrapperSource_KeepsValueOnError ==
    /\ w.pc = "source"
    /\ \E o \in SourceOutcomes :
        LET call == CallRec("Source", <<>>, NilBytes, 0, o.val, FALSE, o.err)
            rec  == [w EXCEPT !.calls = Append(@, call),
                              !.err = o.err, !.dataFromSource = o.val]
            m    == Marshal(o.val)
        IN  w' = IF o.err # NoErr
                 THEN Return([rec EXCEPT !.errType = "call fnCacheable"], o.val, o.err)
                 ELSE IF o.val = NilData \/ m.err # NoErr
                 THEN Return(rec, NilData, m.err)
                 ELSE [rec EXCEPT !.bytesFromSource = m.bytes,
                                  !.pc = IF w.variant = "fixed" THEN "store" ELSE "ttl"]
    /\ UNCHANGED <<items, now, last, hist, others>>

\* WrapperSource that treats a nil value as a value to cache: it encodes to null and is
\* stored without asking for a TTL.
WrapperSource_CachesNil ==
    /\ w.pc = "source"
    /\ \E o \in SourceOutcomes :
        LET call == CallRec("Source", <<>>, NilBytes, 0, NilData, FALSE, o.err)
            rec  == [w EXCEPT !.calls = Append(@, [call EXCEPT !.arg = o.val]),
                              !.err = o.err, !.dataFromSource = o.val]
            m    == Marshal(o.val)
        IN  w' = IF o.err # NoErr
                 THEN Return([rec EXCEPT !.errType = "call fnCacheable"], NilData, o.err)
                 ELSE IF o.val = NilData
                 THEN [rec EXCEPT !.bytesFromSource = <<"n", "u", "l", "l">>, !.pc = "store"]
                 ELSE IF w.variant = "fixed" /\ w.exp < 0
                 THEN Return(rec, o.val, NoErr)
                 ELSE IF m.err # NoErr
                 THEN Return([rec EXCEPT !.err = m.err,
                                         !.errType = "json.Marshal dataFromSource"],
                             NilData, m.err)
                 ELSE [rec EXCEPT !.bytesFromSource = m.bytes,
                                  !.pc = IF w.variant = "fixed" THEN "store" ELSE "ttl"]
    /\ UNCHANGED <<items, now, last, hist, others>>

\* dataFromSource, err := fnCacheable(ctx, id), up to the next call out of the wrapper
WrapperSource ==
    /\ w.pc = "source"
    /\ \E o \in SourceOutcomes :
        LET call == CallRec("Source", <<>>, NilBytes, 0, NilData, FALSE, o.err)
            rec  == [w EXCEPT !.calls = Append(@, [call EXCEPT !.arg = o.val]),
                              !.err = o.err, !.dataFromSource = o.val]
            m    == Marshal(o.val)
        IN  w' = IF o.err # NoErr
                 THEN Return([rec EXCEPT !.errType = "call fnCacheable"], NilData, o.err)
                 ELSE IF o.val = NilData
                 THEN Return(rec, NilData, NoErr)
                 ELSE IF w.variant = "fixed" /\ w.exp < 0
                 THEN Return(rec, o.val, NoErr)
                 ELSE IF m.err # NoErr
                 THEN Return([rec EXCEPT !.err = m.err,
                                         !.errType = "json.Marshal dataFromSource"],
                             NilData, m.err)
                 ELSE [rec EXCEPT !.bytesFromSource = m.bytes,
                                  !.pc = IF w.variant = "fixed" THEN "store" ELSE "ttl"]
    /\ UNCHANGED <<items, now, last, hist, others>>

\* WrapperGetTtl that asks fnGetTtl a second time before it stores.
WrapperGetTtl_AsksTwice ==
    /\ w.pc = "ttl"
    /\ LET exp  == w.fnGetTtl[w.dataFromSource]
           call == CallRec("GetTtl", <<>>, NilBytes, exp, w.dataFromSource, FALSE, NoErr)
           rec  == [w EXCEPT !.calls = Append(Append(@, call), call), !.exp = exp]
       IN  w' = IF exp < 0
                THEN Return(rec, w.dataFromSource, NoErr)
                ELSE [rec EXCEPT !.pc = "store"]
    /\ UNCHANGED <<items, now, last, hist, others>>

\* exp := fnGetTtl(ctx, dataFromSource), in GetFromCacheWithDynamicTTL only
WrapperGetTtl ==
    /\ w.pc = "ttl"
    /\ LET exp  == w.fnGetTtl[w.dataFromSource]
           call == CallRec("GetTtl", <<>>, NilBytes, exp, w.dataFromSource, FALSE, NoErr)
           rec  == [w EXCEPT !.calls = Append(@, call), !.exp = exp]
       IN  w' = IF exp < 0
                THEN Return(rec, w.dataFromSource, NoErr)
                ELSE [rec EXCEPT !.pc = "store"]
    /\ UNCHANGED <<items, now, last, hist, others>>

\* WrapperStore that hands a failure of the store to the caller.
WrapperStore_ReturnsError ==
    /\ w.pc = "store"
    /\ \E e \in RepoStore :
        LET call == IF w.exp = 0
                    THEN CallRec("StoreWithoutTTL", w.key, w.bytesFromSource, 0, NilData, FALSE, e)
                    ELSE CallRec("Store", w.key, w.bytesFromSource, w.exp, NilData, FALSE, e)
            rec  == [w EXCEPT !.calls = Append(@, call), !.err = e,
                              !.errType = IF w.exp = 0 THEN "call cache.StoreWithoutTTL"
                                                       ELSE "call cache.Store"]
        IN  w' = IF e # NoErr THEN Return(rec, NilData, e)
                 ELSE Return(rec, w.dataFromSource, NoErr)
    /\ UNCHANGED <<items, now, last, hist, others>>

\* repo.StoreWithoutTTL or repo.Store by exp, then return dataFromSource, nil
WrapperStore ==
    /\ w.pc = "store"
    /\ \E e \in RepoStore :
        LET call == IF w.exp = 0
                    THEN CallRec("StoreWithoutTTL", w.key, w.bytesFromSource, 0, NilData, FALSE, e)
                    ELSE CallRec("Store", w.key, w.bytesFromSource, w.exp, NilData, FALSE, e)
            rec  == [w EXCEPT !.calls = Append(@, call), !.err = e,
                              !.errType = IF w.exp = 0 THEN "call cache.StoreWithoutTTL"
                                                       ELSE "call cache.Store"]
        IN  w' = Return(rec, w.dataFromSource, NoErr)
    /\ UNCHANGED <<items, now, last, hist, others>>

\* The caller takes the result; the next call may start.
WrapperReturn ==
    /\ w.pc = "done"
    /\ w' = IdleCall
    /\ UNCHANGED <<items, now, last, hist, others>>


(***************************************************************************)
(* What a finished wrapper call did.                                       *)
(***************************************************************************)
IsSourceCall(c) == c.op = "Source"

IsStoreCall(c) == c.op \in {"Store", "StoreWithoutTTL"}

SourceCalls == SelectSeq(w.calls, IsSourceCall)

StoreCalls == SelectSeq(w.calls, IsStoreCall)

Done == w.pc = "done" /\ Len(w.calls) >= 1 /\ w.calls[1].op = "Get"

\* The backend Get of the finished call: a decodable hit, a miss, a failure.
GotHit == Done /\ w.calls[1].found /\ Unmarshal(w.calls[1].bytes).err = NoErr

GotMiss == Done /\ ~w.calls[1].found /\ w.calls[1].err = NoErr

GotError == Done /\ w.calls[1].err # NoErr

\* The source was called and answered with an error.
SourceFailed == Done /\ Len(SourceCalls) >= 1 /\ SourceCalls[1].err # NoErr

\* The source was called and answered with a value and no error.
Fetched == Done /\ Len(SourceCalls) >= 1 /\ SourceCalls[1].err = NoErr
                /\ SourceCalls[1].arg # NilData

FetchedValue == SourceCalls[1].arg

\* The TTL of the call: the exp argument, or fnGetTtl applied to the fetched value.
PolicyTTL == IF w.variant = "fixed" THEN w.exp ELSE w.fnGetTtl[FetchedValue]

\* The store calls made, as (operation, key, bytes, ttl).
StoresMade ==
    [i \in 1 .. Len(StoreCalls) |->
        <<StoreCalls[i].op, StoreCalls[i].key, StoreCalls[i].bytes, StoreCalls[i].ttl>>]

\* The store calls the TTL policy asks for, for the fetched value under prefix:id.
StoresWanted ==
    LET key   == CacheKey(w.prefixKey, w.id)
        bytes == Marshal(FetchedValue).bytes
    IN  IF PolicyTTL > 0 THEN << <<"Store", key, bytes, PolicyTTL>> >>
        ELSE IF PolicyTTL = 0 THEN << <<"StoreWithoutTTL", key, bytes, 0>> >>
        ELSE << >>

(***************************************************************************)
(* Claims about the wrapper, under SpecWrapper.                            *)
(***************************************************************************)
\* C1: in both variants, when the backend Get for prefix:id reports found with bytes that
\* decode, the call returns the decoded value with a nil error, the source function is
\* not invoked and no Store / StoreWithoutTTL call is made (the Get is the only call).
HitReturnsCached ==
    GotHit =>
        /\ w.ret = [val |-> Unmarshal(w.calls[1].bytes).val, err |-> NoErr]
        /\ w.calls[1].key = CacheKey(w.prefixKey, w.id)
        /\ Len(SourceCalls) = 0
        /\ Len(StoreCalls) = 0
        /\ Len(w.calls) = 1

\* A dynamic-TTL call served from the cache.
HitReturnsCachedWitness ==
    GotHit /\ w.variant = "dynamic" /\ w.ret.val = "d2" /\ w.key = <<"u", ":", "2">>

\* C2: in both variants, on a miss where the source returns a non-nil value without error,
\* the call returns that value and stores by the sign of the TTL: one Store with the TTL
\* when it is positive, one StoreWithoutTTL when it is zero, no store when it is negative;
\* the bytes stored under prefix:id are the serialization of the value.
MissStoresByTTL ==
    (GotMiss /\ Fetched) =>
        /\ w.ret = [val |-> FetchedValue, err |-> NoErr]
        /\ StoresMade = StoresWanted

\* C3: in both variants, when the source function returns an error the call returns
\* (nil, that error) and makes no Store / StoreWithoutTTL call.
SourceErrorReturned ==
    SourceFailed =>
        /\ w.ret = [val |-> NilData, err |-> SourceCalls[1].err]
        /\ Len(StoreCalls) = 0

\* The source answered with a value and an error after a failed backend Get.
SourceErrorReturnedWitness ==
    SourceFailed /\ GotError /\ SourceCalls[1].arg = "d1" /\ w.ret.err = "source error"

\* C4: the wrapper returns a non-nil error only when the source function returned one;
\* no failure of the cache read, of the decoding, of the serialization or of the store
\* replaces a fetched value by nil or by an error.
OnlySourceErrorReturned ==
    Done =>
        /\ (w.ret.err # NoErr => SourceFailed)
        /\ (Fetched => w.ret = [val |-> FetchedValue, err |-> NoErr])

\* C5: in both variants a backend Get that returns an error is handled as a miss: the
\* source function is invoked, and its non-nil result is stored under prefix:id by the
\* TTL policy and returned with a nil error.
GetErrorIsMiss ==
    GotError =>
        /\ Len(SourceCalls) = 1
        /\ Fetched => /\ w.ret = [val |-> FetchedValue, err |-> NoErr]
                      /\ StoresMade = StoresWanted

(***************************************************************************)
(* Claims about the in-process backend, under SpecMem.                     *)
(***************************************************************************)
\* This step is a call of op on key k.
Called(op, k) == last'.seq # last.seq /\ last'.op = op /\ last'.key = k

\* The expiry instant the last write of k asked for: the time of the call plus its ttl.
Deadline(k) == hist[k].until

\* C6: Store(k, v, ttl) with ttl > 0 followed by Get(k) not later than the expiry, with
\* no write to k in between, returns (v, true, nil); after StoreWithoutTTL(k, v) the
\* same holds at every later time.
StoreThenGet ==
    [][\A k \in MemKeys :
        Called("Get", k) =>
            /\ (hist[k].op = "Store" /\ hist[k].pos /\ now <= Deadline(k))
                    => last'.ret = Ret(hist[k].value, TRUE, NoErr, 0)
            /\ (hist[k].op = "StoreWithoutTTL")
                    => last'.ret = Ret(hist[k].value, TRUE, NoErr, 0)]_vars

\* A Get at the expiry instant, that is later than the Store, found the value; the other
\* key is stored without expiry.
StoreThenGetWitness ==
    /\ last.op = "Get" /\ last.ret.found
    /\ hist[last.key].op = "Store" /\ hist[last.key].pos
    /\ now = Deadline(last.key)
    /\ \E j \in MemKeys \ {last.key} :
            hist[j].op = "StoreWithoutTTL" /\ j \in DOMAIN items

\* C7: Get(k) on an entry whose expiry is strictly before the current time returns
\* (nil, false, nil) and removes the entry from the map; an entry written without expiry
\* is found by Get at any time and stays in the map.
GetEvictsExpired ==
    [][\A k \in MemKeys :
        (Called("Get", k) /\ k \in DOMAIN items) =>
            /\ (hist[k].op \in {"Store", "IncrementWithTTL"} /\ Deadline(k) < now)
                    => (last'.ret = Ret(NilBytes, FALSE, NoErr, 0) /\ k \notin DOMAIN items')
            /\ (hist[k].op \in {"StoreWithoutTTL", "Increment"})
                    => (last'.ret = Ret(hist[k].value, TRUE, NoErr, 0) /\ k \in DOMAIN items'
                        /\ items'[k] = items[k])]_vars

\* A Get has evicted an expired entry while an entry without expiry is still stored after
\* the clock has advanced.
GetEvictsExpiredWitness ==
    /\ last.op = "Get" /\ ~last.ret.found
    /\ hist[last.key].op = "Evict" /\ last.key \notin DOMAIN items
    /\ \E j \in MemKeys \ {last.key} :
            hist[j].op \in {"StoreWithoutTTL", "Increment"} /\ now > 0
                /\ j \in DOMAIN items

\* C8: after IncrementWithTTL(k, ttl), once more than ttl has elapsed with no other
\* write to k, Increment(k) treats k as absent and returns 1.
IncrementAfterExpiry ==
    [][\A k \in MemKeys :
        (Called("Increment", k) /\ hist[k].op = "IncrementWithTTL" /\ hist[k].pos
            /\ now > Deadline(k))
            => last'.ret = Ret(NilBytes, FALSE, NoErr, 1)]_vars

\* C9: Delete(k) returns nil; on an absent key it leaves the map unchanged; on a present
\* key it removes k and leaves every other key's entry unchanged; a second Delete(k)
\* changes nothing more; a Get(k) that follows reports found = false.
DeleteIdempotent ==
    [][\A k \in MemKeys :
        /\ Called("Delete", k) =>
            /\ last'.ret.err = NoErr
            /\ k \notin DOMAIN items'
            /\ \A j \in MemKeys \ {k} :
                    /\ j \in DOMAIN items' <=> j \in DOMAIN items
                    /\ j \in DOMAIN items => items'[j] = items[j]
            /\ k \notin DOMAIN items => items' = items
            /\ (last.op = "Delete" /\ last.key = k) => items' = items
        /\ (Called("Get", k) /\ hist[k].op = "Delete") =>
            last'.ret = Ret(NilBytes, FALSE, NoErr, 0)]_vars

\* A Get has followed the Delete of a key while the other key is still stored.
DeleteIdempotentWitness ==
    /\ last.op = "Get" /\ ~last.ret.found
    /\ hist[last.key].op = "Delete"
    /\ \E j \in MemKeys \ {last.key} : j \in DOMAIN items

\* No expiry set by a write of k has elapsed.
Unexpired(k) ==
    k \in DOMAIN items => ~(hist[k].op \in {"Store", "IncrementWithTTL"} /\ now > Deadline(k))

\* C10: from an absent key k, the i-th of a sequence of Increment(k) / IncrementWithTTL(k, ttl)
\* calls (no expiry elapsing) returns i, and the value stored after it is the decimal
\* rendering of i.
IncrementCounts ==
    [][\A k \in MemKeys :
        ((Called("Increment", k) \/ Called("IncrementWithTTL", k))
            /\ hist'[k].n > 0 /\ Unexpired(k))
            => /\ last'.ret = Ret(NilBytes, FALSE, NoErr, hist'[k].n)
               /\ k \in DOMAIN items'
               /\ items'[k].value = int64ToBytes(hist'[k].n)]_vars

\* The third increment in a row from an absent key, an IncrementWithTTL, returned 3.
IncrementCountsWitness ==
    /\ last.op = "IncrementWithTTL" /\ last.ret.n = 3
    /\ hist[last.key].n = 3 /\ items[last.key].value = <<"3">>

(***************************************************************************)
(* MemoryCache lists: a list is stored as its elements joined by commas.   *)
(***************************************************************************)
\* The longest list the model pushes, and the most pushes to a key without another write.
MaxList == 3

\* math.MinInt64 and math.MaxInt64.  TLC's integers are 32 bits wide, so the two
\* ends of int64 are modelled by the two ends of that range; the one place where int64
\* arithmetic wraps around, the negation in LRem, is spelled out in Neg64.
MaxInt64 == 2147483647

MinInt64 == -MaxInt64 - 1

\* -n in int64: the least value has no positive counterpart and is its own negation.
Neg64(n) == IF n = MinInt64 THEN MinInt64 ELSE -n

\* The elements pushed and removed: plain ones, the empty string, one with the delimiter.
ListElems == {<<"a">>, <<"b">>, <<>>, <<"a", ",", "b">>}

\* The keys holding lists.
ListKeys == {<<"t", ":", "1">>}

\* The elements of the lists that ranges are taken of: the empty string is an element like
\* any other unless it is the only one.
RangeElems == {<<"a">>, <<"b">>, <<>>}

\* The start and end arguments of LRange and LTrim: every index of the longest list from
\* either end, which lie beyond both ends of the shorter ones, and the ends of int64.
Indexes == (-MaxList .. (MaxList - 1)) \cup {MinInt64, MaxInt64}

\* The count argument of LRem.
Counts == (-MaxList .. MaxList) \cup {MinInt64}

\* The positions of the commas of s.
Commas(s) == {i \in 1 .. Len(s) : s[i] = ","}

RECURSIVE Split(_)
\* strings.Split(s, ","): the pieces between the commas, one piece for a string with none.
Split(s) ==
    IF Commas(s) = {} THEN <<s>>
    ELSE LET i == CHOOSE c \in Commas(s) : \A d \in Commas(s) : c <= d
         IN  <<SubSeq(s, 1, i - 1)>> \o Split(SubSeq(s, i + 1, Len(s)))

RECURSIVE Join(_)
\* strings.Join(values, ",")
Join(values) ==
    IF values = <<>> THEN <<>>
    ELSE IF Len(values) = 1 THEN values[1]
    ELSE values[1] \o <<",">> \o Join(Tail(values))

\* The decoding every list call starts with: the stored bytes split at the commas, and no
\* element at all when that gives the single empty string.
ListValues(value) ==
    LET values == Split(value)
    IN  IF Len(values) = 1 /\ values[1] = <<>> THEN <<>> ELSE values

\* How far the entry of key is a list built by LPush alone since the key was absent: the
\* number of pushes, 0 when something else wrote the entry.
PushChainOf(key) ==
    IF key \notin DOMAIN items THEN 1
    ELSE IF hist[key].op = "LPush" /\ hist[key].n > 0 THEN hist[key].n + 1
    ELSE 0

\* LPush that adds the value at the tail.
LPush_Appends(key, value) ==
    LET values == IF key \in DOMAIN items THEN ListValues(items[key].value) ELSE <<>>
        pushed == values \o <<value>>
        before == IF key \in DOMAIN items THEN hist[key].elems ELSE <<>>
    IN  /\ Len(pushed) <= MaxList /\ PushChainOf(key) <= MaxList
        /\ items' = MapSet(items, key, CacheItem(Join(pushed), ZeroTime))
        /\ last' = CallArg("LPush", key, <<value>>, RetErr(NoErr))
        /\ hist' = [hist EXCEPT ![key] =
                       [Write("LPush", Join(pushed), PushChainOf(key))
                           EXCEPT !.elems = IF PushChainOf(key) > 0
                                            THEN <<value>> \o before ELSE <<>>]]
        /\ UNCHANGED <<now, w, others>>

LPush(key, value) ==
    LET values == IF key \in DOMAIN items THEN ListValues(items[key].value) ELSE <<>>
        pushed == <<value>> \o values
        before == IF key \in DOMAIN items THEN hist[key].elems ELSE <<>>
    IN  /\ Len(pushed) <= MaxList /\ PushChainOf(key) <= MaxList
        /\ items' = MapSet(items, key, CacheItem(Join(pushed), ZeroTime))
        /\ last' = CallArg("LPush", key, <<value>>, RetErr(NoErr))
        /\ hist' = [hist EXCEPT ![key] =
                       [Write("LPush", Join(pushed), PushChainOf(key))
                           EXCEPT !.elems = IF PushChainOf(key) > 0
                                            THEN <<value>> \o before ELSE <<>>]]
        /\ UNCHANGED <<now, w, others>>

\* values[lo:hi]: Go panics unless 0 <= lo <= hi <= len(values).
Slice(values, lo, hi) ==
    IF lo < 0 \/ hi > Len(values) \/ lo > hi
    THEN RetList(<<>>, "panic: slice bounds out of range")
    ELSE RetList(SubSeq(values, lo + 1, hi), NoErr)

\* LRangeOf that leaves an end before the head of the list negative.
LRangeOf_NoEndClamp(m, key, start, end) ==
    IF key \notin DOMAIN m THEN RetList(<<>>, NoErr)
    ELSE LET values == Split(m[key].value)
             length == Len(values)
             start1 == IF start < 0
                       THEN (IF length + start < 0 THEN 0 ELSE length + start)
                       ELSE start
             end1   == IF end < 0
                       THEN length + end
                       ELSE end
             end2   == IF end1 >= length THEN length - 1 ELSE end1
         IN  IF Len(values) = 1 /\ values[1] = <<>> THEN RetList(<<>>, NoErr)
             ELSE IF start1 > end2 THEN RetList(<<>>, NoErr)
             ELSE Slice(values, start1, end2 + 1)

\* What LRange returns on the map m.
LRangeOf(m, key, start, end) ==
    IF key \notin DOMAIN m THEN RetList(<<>>, NoErr)
    ELSE LET values == Split(m[key].value)
             length == Len(values)
             start1 == IF start < 0
                       THEN (IF length + start < 0 THEN 0 ELSE length + start)
                       ELSE start
             end1   == IF end < 0
                       THEN (IF length + end < 0 THEN 0 ELSE length + end)
                       ELSE end
             end2   == IF end1 >= length THEN length - 1 ELSE end1
         IN  IF Len(values) = 1 /\ values[1] = <<>> THEN RetList(<<>>, NoErr)
             ELSE IF start1 > end2 THEN RetList(<<>>, NoErr)
             ELSE Slice(values, start1, end2 + 1)

LRange(key, start, end) ==
    /\ last' = CallArg("LRange", key, <<start, end>>, LRangeOf(items, key, start, end))
    /\ UNCHANGED <<items, hist, now, w, others>>

\* LTrim that stores the empty list instead of deleting the key.
LTrim_KeepsEmptyKey(key, start, end) ==
    LET r == LRangeOf(items, key, start, end)
        values == r.values
    IN  /\ last' = CallArg("LTrim", key, <<start, end>>, RetErr(r.err))
        /\ IF r.err # NoErr
           THEN UNCHANGED <<items, hist>>
           ELSE IF Len(values) = 0
           THEN /\ items' = MapSet(items, key, CacheItem(<<>>, ZeroTime))
                /\ hist' = [hist EXCEPT ![key] = Write("LTrim", NilBytes, 0)]
           ELSE /\ items' = MapSet(items, key, CacheItem(Join(values), ZeroTime))
                /\ hist' = [hist EXCEPT ![key] =
                               [Write("LTrim", Join(values), 0) EXCEPT !.elems = values]]
        /\ UNCHANGED <<now, w, others>>

LTrim(key, start, end) ==
    LET r == LRangeOf(items, key, start, end)
        values == r.values
    IN  /\ last' = CallArg("LTrim", key, <<start, end>>, RetErr(r.err))
        /\ IF r.err # NoErr
           THEN UNCHANGED <<items, hist>>
           ELSE IF Len(values) = 0
           THEN /\ items' = MapDelete(items, key)
                /\ hist' = [hist EXCEPT ![key] = Write("LTrim", NilBytes, 0)]
           ELSE /\ items' = MapSet(items, key, CacheItem(Join(values), ZeroTime))
                /\ hist' = [hist EXCEPT ![key] =
                               [Write("LTrim", Join(values), 0) EXCEPT !.elems = values]]
        /\ UNCHANGED <<now, w, others>>

RECURSIVE RemoveFirst(_, _, _, _)
\* The loop of LRem for count > 0: head to tail, skipping matches while removed < count.
RemoveFirst(values, targetValue, count, removed) ==
    IF values = <<>> THEN <<>>
    ELSE IF Head(values) = targetValue /\ removed < count
    THEN RemoveFirst(Tail(values), targetValue, count, removed + 1)
    ELSE <<Head(values)>> \o RemoveFirst(Tail(values), targetValue, count, removed)

RECURSIVE RemoveLast(_, _, _, _)
\* The loop of LRem for count < 0: tail to head, prepending what is kept.
RemoveLast(values, targetValue, count, removed) ==
    IF values = <<>> THEN <<>>
    ELSE LET i == Len(values)
         IN  IF values[i] = targetValue /\ removed < count
             THEN RemoveLast(SubSeq(values, 1, i - 1), targetValue, count, removed + 1)
             ELSE RemoveLast(SubSeq(values, 1, i - 1), targetValue, count, removed)
                      \o <<values[i]>>

\* The result slice of LRem.
LRemResult(values, count, targetValue) ==
    IF count > 0 THEN RemoveFirst(values, targetValue, count, 0)
    ELSE IF count < 0 THEN RemoveLast(values, targetValue, Neg64(count), 0)
    ELSE SelectSeq(values, LAMBDA v : v # targetValue)

\* LRem that keeps the expiry of the entry it rewrites.
LRem_KeepsExpiry(key, count, value) ==
    LET values == IF key \in DOMAIN items THEN Split(items[key].value) ELSE <<>>
        result == LRemResult(values, count, value)
    IN  /\ last' = CallArg("LRem", key, <<count, value>>, RetErr(NoErr))
        /\ IF key \notin DOMAIN items \/ (Len(values) = 1 /\ values[1] = <<>>)
           THEN UNCHANGED <<items, hist>>
           ELSE IF Len(result) = 0
           THEN /\ items' = MapDelete(items, key)
                /\ hist' = [hist EXCEPT ![key] = Write("LRem", NilBytes, 0)]
           ELSE /\ items' = MapSet(items, key,
                                   CacheItem(Join(result), items[key].expiresAt))
                /\ hist' = [hist EXCEPT ![key] =
                               [Write("LRem", Join(result), 0) EXCEPT !.elems = result]]
        /\ UNCHANGED <<now, w, others>>

LRem(key, count, value) ==
    LET values == IF key \in DOMAIN items THEN Split(items[key].value) ELSE <<>>
        result == LRemResult(values, count, value)
    IN  /\ last' = CallArg("LRem", key, <<count, value>>, RetErr(NoErr))
        /\ IF key \notin DOMAIN items \/ (Len(values) = 1 /\ values[1] = <<>>)
           THEN UNCHANGED <<items, hist>>
           ELSE IF Len(result) = 0
           THEN /\ items' = MapDelete(items, key)
                /\ hist' = [hist EXCEPT ![key] = Write("LRem", NilBytes, 0)]
           ELSE /\ items' = MapSet(items, key, CacheItem(Join(result), ZeroTime))
                /\ hist' = [hist EXCEPT ![key] =
                               [Write("LRem", Join(result), 0) EXCEPT !.elems = result]]
        /\ UNCHANGED <<now, w, others>>

(***************************************************************************)
(* MemoryCache.KeysByPattern and the filepath.Match it applies to each key *)
(***************************************************************************)
\* The keys stored with a TTL.
ExpiringKeys == {<<"t", ":", "1">>}

\* The patterns searched for, well-formed and malformed.
Patterns ==
    { <<"t", ":", "*">>, <<"*">>, <<"?", ":", "1">>, <<"*", "[", "1", "-", "2", "]">>,
      <<"[", "^", "t", "]", "*">>, <<"\\", "t", "*", "1">>,
      <<"[", "t">>, <<"t", ":", "\\">>, <<"*", "[", "2", "-", "]">> }

\* filepath.Separator
Separator == "/"

\* The byte value of the characters of keys and patterns.
Ascii ==
    [c \in {"*", "-", "/", "1", "2", ":", "?", "[", "\\", "]", "^", "t", "u"} |->
        CASE c = "*" -> 42 [] c = "-" -> 45 [] c = "/" -> 47 [] c = "1" -> 49
          [] c = "2" -> 50 [] c = ":" -> 58 [] c = "?" -> 63 [] c = "[" -> 91
          [] c = "\\" -> 92 [] c = "]" -> 93 [] c = "^" -> 94 [] c = "t" -> 116
          [] c = "u" -> 117]

\* getEsc: the next character of a character class, a backslash quoting the one after it;
\* an error at the end of the pattern, on - or ] in that place, and when nothing follows.
getEsc(chunk) ==
    IF chunk = <<>> \/ chunk[1] = "-" \/ chunk[1] = "]"
    THEN [err |-> TRUE, r |-> "", rest |-> <<>>]
    ELSE LET c == IF chunk[1] = "\\" THEN Tail(chunk) ELSE chunk
         IN  IF c = <<>> \/ Tail(c) = <<>>
             THEN [err |-> TRUE, r |-> "", rest |-> <<>>]
             ELSE [err |-> FALSE, r |-> c[1], rest |-> Tail(c)]

RECURSIVE ScanRanges(_, _)
\* The ranges of a character class up to its closing bracket, which closes the class only
\* after at least one range.
ScanRanges(chunk, ranges) ==
    IF chunk # <<>> /\ chunk[1] = "]" /\ Len(ranges) > 0
    THEN [err |-> FALSE, ranges |-> ranges, rest |-> Tail(chunk)]
    ELSE LET lo == getEsc(chunk)
             hi == getEsc(Tail(lo.rest))
         IN  IF lo.err THEN [err |-> TRUE, ranges |-> <<>>, rest |-> <<>>]
             ELSE IF lo.rest[1] = "-"
             THEN IF hi.err THEN [err |-> TRUE, ranges |-> <<>>, rest |-> <<>>]
                  ELSE ScanRanges(hi.rest, Append(ranges, <<lo.r, hi.r>>))
             ELSE ScanRanges(lo.rest, Append(ranges, <<lo.r, lo.r>>))

RECURSIVE ScanPattern(_)
\* The pattern as the sequence of its terms: star, any one character, a character class,
\* a literal character; err for a malformed pattern (filepath.ErrBadPattern).
ScanPattern(pattern) ==
    IF pattern = <<>> THEN [err |-> FALSE, terms |-> <<>>]
    ELSE LET c       == pattern[1]
             negated == Len(pattern) > 1 /\ pattern[2] = "^"
             class   == ScanRanges(IF negated THEN Tail(Tail(pattern)) ELSE Tail(pattern),
                                   <<>>)
             after   == IF c = "[" THEN class.rest
                        ELSE IF c = "\\" THEN Tail(Tail(pattern))
                        ELSE Tail(pattern)
             term    == IF c = "*" THEN [kind |-> "star"]
                        ELSE IF c = "?" THEN [kind |-> "any"]
                        ELSE IF c = "["
                        THEN [kind |-> "class", negated |-> negated, ranges |-> class.ranges]
                        ELSE IF c = "\\" THEN [kind |-> "char", c |-> pattern[2]]
                        ELSE [kind |-> "char", c |-> c]
             rest    == ScanPattern(after)
         IN  IF (c = "[" /\ class.err) \/ (c = "\\" /\ Len(pattern) = 1)
             THEN [err |-> TRUE, terms |-> <<>>]
             ELSE [err |-> rest.err, terms |-> <<term>> \o rest.terms]

\* Whether the character r is within one of the ranges.
InRanges(r, ranges) ==
    \E i \in 1 .. Len(ranges) :
        Ascii[ranges[i][1]] <= Ascii[r] /\ Ascii[r] <= Ascii[ranges[i][2]]

RECURSIVE MatchTerms(_, _)
\* Whether the whole name matches the terms: star stands for any run of characters other
\* than the separator, ? for one such character.
MatchTerms(terms, name) ==
    IF terms = <<>> THEN name = <<>>
    ELSE LET term == Head(terms)
         IN  IF term.kind = "star"
             THEN \E i \in 0 .. Len(name) :
                     /\ \A j \in 1 .. i : name[j] # Separator
                     /\ MatchTerms(Tail(terms), SubSeq(name, i + 1, Len(name)))
             ELSE /\ name # <<>>
                  /\ IF term.kind = "any" THEN name[1] # Separator
                     ELSE IF term.kind = "class"
                     THEN InRanges(name[1], term.ranges) # term.negated
                     ELSE name[1] = term.c
                  /\ MatchTerms(Tail(terms), Tail(name))

\* filepath.Match(pattern, name): (matched, err); a malformed pattern is an error whatever
\* the name.
Match(pattern, name) ==
    LET scanned == ScanPattern(pattern)
    IN  IF scanned.err
        THEN [matched |-> FALSE, err |-> "syntax error in pattern"]
        ELSE [matched |-> MatchTerms(scanned.terms, name), err |-> NoErr]

\* The orders in which a range loop may visit the keys of the map m.
Orders(m) ==
    {o \in [1 .. Cardinality(DOMAIN m) -> DOMAIN m] :
        \A i, j \in 1 .. Cardinality(DOMAIN m) : i # j => o[i] # o[j]}

RECURSIVE MatchKeys_KeepsAll(_, _, _)
\* MatchKeys that keeps every key whether it matched or not.
MatchKeys_KeepsAll(order, pattern, matches) ==
    IF order = <<>> THEN RetList(matches, NoErr)
    ELSE LET r == Match(pattern, Head(order))
         IN  IF r.err # NoErr THEN RetList(<<>>, "invalid pattern: " \o r.err)
             ELSE MatchKeys_KeepsAll(Tail(order), pattern,
                            Append(matches, Head(order)))

RECURSIVE MatchKeys(_, _, _)
\* The loop of KeysByPattern over the keys in the order given.
MatchKeys(order, pattern, matches) ==
    IF order = <<>> THEN RetList(matches, NoErr)
    ELSE LET r == Match(pattern, Head(order))
         IN  IF r.err # NoErr THEN RetList(<<>>, "invalid pattern: " \o r.err)
             ELSE MatchKeys(Tail(order), pattern,
                            IF r.matched THEN Append(matches, Head(order)) ELSE matches)

KeysByPattern(pattern) ==
    /\ \E order \in Orders(items) :
          last' = CallArg("KeysByPattern", <<>>, <<pattern>>, MatchKeys(order, pattern, <<>>))
    /\ UNCHANGED <<items, hist, now, w, others>>

Close ==
    /\ items' = << >>
    /\ last' = Call("Close", <<>>, RetErr(NoErr))
    /\ hist' = [k \in DOMAIN hist |->
                   IF k \in DOMAIN items THEN Write("Close", NilBytes, 0) ELSE hist[k]]
    /\ UNCHANGED <<now, w, others>>

(***************************************************************************)
(* MemcacheRepo: each method sends commands to the memcached server mc.    *)
(* For this backend a tick of now is half a second.                        *)
(***************************************************************************)
\* The length of a second, in ticks.
TicksPerSecond == 2

\* Durations handed to MemcacheRepo.Store, in ticks: negative, below a second, a second
\* and more.
McTTLs == -1 .. (TicksPerSecond * MaxTTL)

\* int32(exp.Seconds()): the whole seconds of the duration, rounded towards zero.
Seconds32(exp) ==
    IF exp >= 0 THEN exp \div TicksPerSecond ELSE -((-exp) \div TicksPerSecond)

\* The server before any command reached it: no item; req is the last command received,
\* its seq alternating.
NewMemcache == [items |-> << >>, req |-> [seq |-> 0, cmd |-> "none", key |-> <<>>]]

\* The server receives the command cmd for key.
Received(cmd, key) == [seq |-> 1 - mc.req.seq, cmd |-> cmd, key |-> key]

\* Whether the server still holds a live item for key: an item with an expiry time is gone
\* once that time is reached.
McLive(key) ==
    /\ key \in DOMAIN mc.items
    /\ mc.items[key].expiresAt = ZeroTime \/ now < mc.items[key].expiresAt

\* The server after set: expiration 0 stores an item that never expires, a positive one an
\* item that expires that many seconds from now, a negative one an item already expired.
ServerSet(key, value, expiration) ==
    [items |-> IF expiration < 0 THEN MapDelete(mc.items, key)
               ELSE MapSet(mc.items, key,
                           CacheItem(value,
                                     IF expiration = 0 THEN ZeroTime
                                     ELSE now + expiration * TicksPerSecond)),
     req |-> Received("set", key)]

McStore(key, value, exp) ==
    /\ mc' = ServerSet(key, value, Seconds32(exp))
    /\ last' = CallArg("Store", key, <<value, exp>>, RetErr(NoErr))
    /\ UNCHANGED <<items, hist, now, w, repo, mu, th>>

McStoreWithoutTTL(key, value) ==
    /\ mc' = ServerSet(key, value, 0)
    /\ last' = Call("StoreWithoutTTL", key, RetErr(NoErr))
    /\ UNCHANGED <<items, hist, now, w, repo, mu, th>>

McGet(key) ==
    /\ mc' = [mc EXCEPT !.req = Received("get", key)]
    /\ last' = Call("Get", key,
                    IF McLive(key) THEN Ret(mc.items[key].value, TRUE, NoErr, 0)
                    ELSE Ret(NilBytes, FALSE, NoErr, 0))
    /\ UNCHANGED <<items, hist, now, w, repo, mu, th>>

McDelete(key) ==
    /\ mc' = [items |-> MapDelete(mc.items, key), req |-> Received("delete", key)]
    /\ last' = Call("Delete", key, RetErr(NoErr))
    /\ UNCHANGED <<items, hist, now, w, repo, mu, th>>

\* KeysByPattern that lists the matching keys the server holds.
McKeysByPattern_Scans(pattern) ==
    /\ mc' = [mc EXCEPT !.req = Received("keys", <<>>)]
    /\ \E order \in Orders(mc.items) :
          last' = CallArg("KeysByPattern", <<>>, <<pattern>>,
                          MatchKeys(order, pattern, <<>>))
    /\ UNCHANGED <<items, hist, now, w, repo, mu, th>>

McKeysByPattern(pattern) ==
    /\ last' = CallArg("KeysByPattern", <<>>, <<pattern>>,
                       RetList(<<>>, "pattern-based key search is not supported in memcache"))
    /\ UNCHANGED <<mc, items, hist, now, w, repo, mu, th>>

(***************************************************************************)
(* MemoryCache called by several goroutines: taking m.mu, the accesses to  *)
(* m.items made while holding it, and releasing it are separate steps.     *)
(***************************************************************************)
\* The keys the goroutines contend for.
LockKeys == {<<"t", ":", "1">>}

\* The calls that take m.mu.Lock() and those that take m.mu.RLock().
LockOps == {"Store", "Delete", "LPush", "Increment", "IncrementWithTTL"}

RLockOps == {"Get", "LRange", "KeysByPattern"}

\* The Go runtime has stopped the process: fatal error: concurrent map read and map write.
Fatal == \E t \in Threads : th[t].pc = "fatal"

\* Thread t is between taking and releasing m.mu, at a read or write of m.items.
InMap(t) == th[t].pc \in {"body", "read", "evict", "range", "trim", "write"}

\* Another thread is at an access to m.items while t is at one.
Racing(t) == \E u \in Threads \ {t} : InMap(u)

\* Thread t enters the call op(key, arg...) and is about to take the lock.
Enter(t, op, key, arg) ==
    /\ ~Fatal
    /\ th[t].pc = "idle"
    /\ th' = [th EXCEPT ![t] = [IdleThread EXCEPT !.pc = "lock", !.op = op, !.key = key,
                                                  !.arg = arg]]
    /\ UNCHANGED <<items, now, last, hist, w, repo, mc, mu>>

\* m.mu.Lock(): waits until nobody holds the lock.
Lock(t) ==
    /\ ~Fatal
    /\ th[t].pc = "lock" /\ th[t].op \in LockOps
    /\ mu.writer = 0 /\ mu.readers = {}
    /\ mu' = [mu EXCEPT !.writer = t]
    /\ th' = [th EXCEPT ![t].pc = "body"]
    /\ UNCHANGED <<items, now, last, hist, w, repo, mc>>

\* m.mu.RLock(): waits until no writer holds the lock.
RLock(t) ==
    /\ ~Fatal
    /\ th[t].pc = "lock" /\ th[t].op \in RLockOps
    /\ mu.writer = 0
    /\ mu' = [mu EXCEPT !.readers = @ \cup {t}]
    /\ th' = [th EXCEPT ![t].pc = IF th[t].op = "Get" THEN "read" ELSE "body"]
    /\ UNCHANGED <<items, now, last, hist, w, repo, mc>>

\* The deferred m.mu.Unlock() / m.mu.RUnlock(): the call returns th[t].ret.
Unlock(t) ==
    /\ ~Fatal
    /\ th[t].pc = "unlock" /\ mu.writer = t
    /\ mu' = [mu EXCEPT !.writer = 0]
    /\ th' = [th EXCEPT ![t].pc = "idle"]
    /\ UNCHANGED <<items, now, last, hist, w, repo, mc>>

RUnlock(t) ==
    /\ ~Fatal
    /\ th[t].pc = "unlock" /\ t \in mu.readers
    /\ mu' = [mu EXCEPT !.readers = @ \ {t}]
    /\ th' = [th EXCEPT ![t].pc = "idle"]
    /\ UNCHANGED <<items, now, last, hist, w, repo, mc>>

\* The body of Store: m.items[key] = CacheItem{value, time.Now().Add(exp)}.
StoreBody(t) ==
    /\ ~Fatal
    /\ th[t].pc = "body" /\ th[t].op = "Store"
    /\ items' = MapSet(items, th[t].key, CacheItem(th[t].arg[1], now + th[t].arg[2]))
    /\ th' = [th EXCEPT ![t].pc = "unlock", ![t].ret = RetErr(NoErr)]
    /\ UNCHANGED <<now, last, hist, w, repo, mc, mu>>

\* The body of Delete: delete(m.items, key).
DeleteBody(t) ==
    /\ ~Fatal
    /\ th[t].pc = "body" /\ th[t].op = "Delete"
    /\ items' = MapDelete(items, th[t].key)
    /\ th' = [th EXCEPT ![t].pc = "unlock", ![t].ret = RetErr(NoErr)]
    /\ UNCHANGED <<now, last, hist, w, repo, mc, mu>>

\* Get reads m.items[key] and compares the entry's expiry with the clock.
GetRead(t) ==
    /\ ~Fatal
    /\ th[t].pc = "read"
    /\ th' = [th EXCEPT ![t] =
                 IF th[t].key \notin DOMAIN items
                 THEN [@ EXCEPT !.pc = "unlock", !.ret = Ret(NilBytes, FALSE, NoErr, 0)]
                 ELSE IF Expired(items[th[t].key], now)
                 THEN [@ EXCEPT !.pc = "evict", !.item = items[th[t].key], !.exists = TRUE]
                 ELSE [@ EXCEPT !.pc = "unlock", !.item = items[th[t].key], !.exists = TRUE,
                                !.ret = Ret(items[th[t].key].value, TRUE, NoErr, 0)]]
    /\ UNCHANGED <<items, now, last, hist, w, repo, mc, mu>>

\* Get deletes the expired entry: delete(m.items, key).  When another goroutine is at an
\* access to the map at that moment the runtime may detect it and stop the process.
GetEvict(t) ==
    /\ ~Fatal
    /\ th[t].pc = "evict"
    /\ \/ /\ items' = MapDelete(items, th[t].key)
          /\ th' = [th EXCEPT ![t].pc = "unlock", ![t].ret = Ret(NilBytes, FALSE, NoErr, 0)]
       \/ /\ Racing(t)
          /\ th' = [th EXCEPT ![t].pc = "fatal"]
          /\ UNCHANGED items
    /\ UNCHANGED <<now, last, hist, w, repo, mc, mu>>

\* The body of LRange.
LRangeBody(t) ==
    /\ ~Fatal
    /\ th[t].pc = "body" /\ th[t].op = "LRange"
    /\ th' = [th EXCEPT ![t].pc = "unlock",
                        ![t].ret = LRangeOf(items, th[t].key, th[t].arg[1], th[t].arg[2])]
    /\ UNCHANGED <<items, now, last, hist, w, repo, mc, mu>>

\* The body of KeysByPattern.
KeysByPatternBody(t) ==
    /\ ~Fatal
    /\ th[t].pc = "body" /\ th[t].op = "KeysByPattern"
    /\ \E order \in Orders(items) :
          th' = [th EXCEPT ![t].pc = "unlock",
                           ![t].ret = MatchKeys(order, th[t].arg[1], <<>>)]
    /\ UNCHANGED <<items, now, last, hist, w, repo, mc, mu>>

(***************************************************************************)
(* LTrim and the writers of its key, called by two goroutines.  LTrim      *)
(* calls m.LRange, which takes and releases the read lock, and only then   *)
(* takes m.mu.Lock() to write what LRange returned.                        *)
(***************************************************************************)
\* The indexes LTrim is called with next to other calls.
RaceIndexes == {-1, 0, 1}

\* The map after LPush(key, value) on the map m.
LPushIn(m, key, value) ==
    LET values == IF key \in DOMAIN m THEN ListValues(m[key].value) ELSE <<>>
    IN  MapSet(m, key, CacheItem(Join(<<value>> \o values), ZeroTime))

\* The map after LTrim has written the values its LRange returned.
LTrimIn(m, key, values) ==
    IF Len(values) = 0 THEN MapDelete(m, key)
    ELSE MapSet(m, key, CacheItem(Join(values), ZeroTime))

\* The body of LPush.
LPushBody(t) ==
    /\ ~Fatal
    /\ th[t].pc = "body" /\ th[t].op = "LPush"
    /\ items' = LPushIn(items, th[t].key, th[t].arg[1])
    /\ th' = [th EXCEPT ![t].pc = "unlock", ![t].ret = RetErr(NoErr)]
    /\ UNCHANGED <<now, last, hist, w, repo, mc, mu>>

\* LTrim calls m.LRange: m.mu.RLock().
LTrimRLock(t) ==
    /\ ~Fatal
    /\ th[t].pc = "lock" /\ th[t].op = "LTrim"
    /\ mu.writer = 0
    /\ mu' = [mu EXCEPT !.readers = @ \cup {t}]
    /\ th' = [th EXCEPT ![t].pc = "range"]
    /\ UNCHANGED <<items, now, last, hist, w, repo, mc>>

\* The body of the LRange that LTrim calls: values, err := m.LRange(ctx, key, start, end).
LTrimRange(t) ==
    /\ ~Fatal
    /\ th[t].pc = "range"
    /\ th' = [th EXCEPT ![t].pc = "runlock",
                        ![t].ret = LRangeOf(items, th[t].key, th[t].arg[1], th[t].arg[2])]
    /\ UNCHANGED <<items, now, last, hist, w, repo, mc, mu>>

\* LRange returns to LTrim: the deferred m.mu.RUnlock(); LTrim returns an error of LRange.
LTrimRUnlock(t) ==
    /\ ~Fatal
    /\ th[t].pc = "runlock" /\ t \in mu.readers
    /\ mu' = [mu EXCEPT !.readers = @ \ {t}]
    /\ th' = [th EXCEPT ![t].pc = IF th[t].ret.err # NoErr THEN "idle" ELSE "relock"]
    /\ UNCHANGED <<items, now, last, hist, w, repo, mc>>

\* LTrim takes m.mu.Lock() after LRange has returned.
LTrimLock(t) ==
    /\ ~Fatal
    /\ th[t].pc = "relock"
    /\ mu.writer = 0 /\ mu.readers = {}
    /\ mu' = [mu EXCEPT !.writer = t]
    /\ th' = [th EXCEPT ![t].pc = "trim"]
    /\ UNCHANGED <<items, now, last, hist, w, repo, mc>>

\* LTrim deletes the key or stores the values that LRange returned.
LTrimBody(t) ==
    /\ ~Fatal
    /\ th[t].pc = "trim"
    /\ items' = LTrimIn(items, th[t].key, th[t].ret.values)
    /\ th' = [th EXCEPT ![t].pc = "unlock"]
    /\ UNCHANGED <<now, last, hist, w, repo, mc, mu>>

\* No goroutine has made a call yet.
Quiet == \A t \in Threads : th[t] = IdleThread

\* Thread t has made its one call and the call has returned.
Returned(t) == th[t].pc = "idle" /\ th[t].op # "none"


(***************************************************************************)
(* Increment and IncrementWithTTL called by several goroutines: under      *)
(* m.mu.Lock() each reads the counter and then writes it.                  *)
(***************************************************************************)
\* The most goroutines that increment one counter at the same time.
MaxCallers == 3

Callers == 1 .. MaxCallers

\* Both increments that take every counter for 0.
IncrementRead_IgnoresEntry(t) ==
    /\ ~Fatal
    /\ th[t].pc = "body" /\ th[t].op \in {"Increment", "IncrementWithTTL"}
    /\ th' = [th EXCEPT ![t].pc = "write", ![t].ret = Ret(NilBytes, FALSE, NoErr, 1)]
    /\ UNCHANGED <<items, now, last, hist, w, repo, mc, mu>>

\* Both increments read the counter: val = bytesToInt64(item.value) of an entry, else 0; val++.
IncrementRead(t) ==
    LET key == th[t].key
        val == IF key \in DOMAIN items THEN bytesToInt64(items[key].value) ELSE 0
    IN  /\ ~Fatal
        /\ th[t].pc = "body" /\ th[t].op \in {"Increment", "IncrementWithTTL"}
        /\ th' = [th EXCEPT ![t].pc = "write", ![t].ret = Ret(NilBytes, FALSE, NoErr, val + 1)]
        /\ UNCHANGED <<items, now, last, hist, w, repo, mc, mu>>

\* Both increments write the counter, Increment with no expiry and IncrementWithTTL with
\* time.Now().Add(exp), and return val.
IncrementWrite(t) ==
    /\ ~Fatal
    /\ th[t].pc = "write"
    /\ items' = MapSet(items, th[t].key,
                       CacheItem(int64ToBytes(th[t].ret.n),
                                 IF th[t].op = "Increment" THEN ZeroTime
                                 ELSE now + th[t].arg[1]))
    /\ th' = [th EXCEPT ![t].pc = "unlock"]
    /\ UNCHANGED <<now, last, hist, w, repo, mc, mu>>


(***************************************************************************)
(* MemcacheRepo called by several goroutines.  The server runs one command *)
(* at a time; a method that sends several commands holds no lock between   *)
(* them.  last is the last command the server ran.                         *)
(***************************************************************************)
\* The elements the racing callers push.
McElems == {<<"a">>, <<"b">>}

\* Whether the server can increment the value: memcached takes decimal digits only.
McNumeric(value) == Len(value) > 0 /\ \A i \in 1 .. Len(value) : IsDigit(value[i])

\* Thread t enters the call op(key, arg...) of MemcacheRepo; each of these calls starts with
\* m.client.Get(key).
McEnter(t, op, key, arg) ==
    /\ th[t].pc = "idle"
    /\ th' = [th EXCEPT ![t] = [IdleThread EXCEPT !.pc = "get", !.op = op, !.key = key,
                                                  !.arg = arg]]
    /\ UNCHANGED <<items, now, last, hist, w, repo, mc, mu>>

\* listOp: item, err := m.client.Get(key).
McListGet(t) ==
    LET key == th[t].key
        got == IF McLive(key) THEN Ret(mc.items[key].value, TRUE, NoErr, 0)
               ELSE Ret(NilBytes, FALSE, "memcache: cache miss", 0)
    IN  /\ th[t].pc = "get" /\ th[t].op = "LPush"
        /\ mc' = [mc EXCEPT !.req = Received("get", key)]
        /\ last' = CallArg("get", key, <<>>, got)
        /\ th' = [th EXCEPT ![t].pc = "set", ![t].exists = got.found,
                            ![t].item = CacheItem(got.value, ZeroTime)]
        /\ UNCHANGED <<items, now, hist, w, repo, mu>>

\* The list that listOp decodes from what its Get returned.
McListRead(t) ==
    IF th[t].exists /\ Len(th[t].item.value) > 0 THEN ListValues(th[t].item.value) ELSE <<>>

\* listOp for LPush that pushes onto the list the server holds when the Set arrives.
McListSet_Merges(t) ==
    LET key == th[t].key
        held == IF McLive(key) THEN ListValues(mc.items[key].value) ELSE <<>>
        values == <<th[t].arg[1]>> \o held
    IN  /\ th[t].pc = "set"
        /\ mc' = ServerSet(key, Join(values), 0)
        /\ last' = CallArg("set", key, <<Join(values)>>, RetErr(NoErr))
        /\ th' = [th EXCEPT ![t].pc = "idle", ![t].ret = RetErr(NoErr)]
        /\ UNCHANGED <<items, now, hist, w, repo, mu>>

\* listOp for LPush: values = op(values), then m.Delete of an empty list, else m.client.Set
\* of the joined list with no expiration.
McListSet(t) ==
    LET key == th[t].key
        values == <<th[t].arg[1]>> \o McListRead(t)
    IN  /\ th[t].pc = "set"
        /\ IF Len(values) = 0
           THEN /\ mc' = [items |-> MapDelete(mc.items, key), req |-> Received("delete", key)]
                /\ last' = CallArg("delete", key, <<>>, RetErr(NoErr))
           ELSE /\ mc' = ServerSet(key, Join(values), 0)
                /\ last' = CallArg("set", key, <<Join(values)>>, RetErr(NoErr))
        /\ th' = [th EXCEPT ![t].pc = "idle", ![t].ret = RetErr(NoErr)]
        /\ UNCHANGED <<items, now, hist, w, repo, mu>>

\* Increment: _, err := m.client.Get(key); only a miss leads to the initialisation.
McIncrGet(t) ==
    LET key == th[t].key
        got == IF McLive(key) THEN Ret(mc.items[key].value, TRUE, NoErr, 0)
               ELSE Ret(NilBytes, FALSE, "memcache: cache miss", 0)
    IN  /\ th[t].pc = "get" /\ th[t].op \in {"Increment", "IncrementWithTTL"}
        /\ mc' = [mc EXCEPT !.req = Received("get", key)]
        /\ last' = CallArg("get", key, <<>>, got)
        /\ th' = [th EXCEPT ![t].pc = IF got.found THEN "incr" ELSE "init",
                            ![t].exists = got.found]
        /\ UNCHANGED <<items, now, hist, w, repo, mu>>

\* Increment after a miss: m.client.Set of the value "0".
McIncrInit(t) ==
    /\ th[t].pc = "init"
    /\ mc' = ServerSet(th[t].key, <<"0">>, 0)
    /\ last' = CallArg("set", th[t].key, << <<"0">> >>, RetErr(NoErr))
    /\ th' = [th EXCEPT ![t].pc = "incr"]
    /\ UNCHANGED <<items, now, hist, w, repo, mu>>

\* m.client.Increment(key, 1): the server adds 1 to a live decimal item and keeps its
\* expiry; Increment returns the new value, and IncrementWithTTL goes on to its Set.
McIncr(t) ==
    LET key == th[t].key
        newVal == bytesToInt64(mc.items[key].value) + 1
        ret == IF ~McLive(key) THEN Ret(NilBytes, FALSE, "memcache: cache miss", 0)
               ELSE IF ~McNumeric(mc.items[key].value)
               THEN Ret(NilBytes, FALSE,
                        "memcache: client error: cannot increment or decrement non-numeric value",
                        0)
               ELSE Ret(NilBytes, FALSE, NoErr, newVal)
    IN  /\ th[t].pc = "incr"
        /\ mc' = [items |-> IF ret.err = NoErr
                            THEN [mc.items EXCEPT ![key].value = int64ToBytes(newVal)]
                            ELSE mc.items,
                  req |-> Received("incr", key)]
        /\ last' = CallArg("incr", key, <<>>, ret)
        /\ th' = [th EXCEPT ![t].pc = IF ret.err = NoErr /\ th[t].op = "IncrementWithTTL"
                                      THEN "ttl" ELSE "idle",
                            ![t].ret = ret]
        /\ UNCHANGED <<items, now, hist, w, repo, mu>>

\* IncrementWithTTL: m.client.Set of FormatInt(val, 10) with Expiration int32(exp.Seconds()).
McIncrTTL(t) ==
    /\ th[t].pc = "ttl"
    /\ mc' = ServerSet(th[t].key, int64ToBytes(th[t].ret.n), Seconds32(th[t].arg[1]))
    /\ last' = CallArg("set", th[t].key, <<int64ToBytes(th[t].ret.n)>>, RetErr(NoErr))
    /\ th' = [th EXCEPT ![t].pc = "idle"]
    /\ UNCHANGED <<items, now, hist, w, repo, mu>>


(***************************************************************************)
(* GetFromCache called by several goroutines for one key over one          *)
(* MemoryCache.  In this part w holds one record per caller, and every     *)
(* call of the backend is one step, as each runs under m.mu.               *)
(***************************************************************************)
\* The key all callers ask for.
CoPrefix == <<"t">>

CoId == 1

\* The durations the callers pass: do not cache, cache forever, cache for MaxTTL.
CoTTLs == {-1, 0, MaxTTL}

\* What fnCacheable returns to the racing callers.
CoSourceOutcomes ==
    {[val |-> v, err |-> NoErr] : v \in {"d1", "d2", "dNaN", NilData}}
        \cup {[val |-> NilData, err |-> "source error"]}

\* MemGet that never looks at the expiry of the entry.
MemGet_ServesExpired(key) ==
    IF key \in DOMAIN items
    THEN [bytes |-> items[key].value, found |-> TRUE, err |-> NoErr]
    ELSE [bytes |-> NilBytes, found |-> FALSE, err |-> NoErr]

\* What MemoryCache.Get returns for key.
MemGet(key) ==
    IF key \in DOMAIN items /\ ~Expired(items[key], now)
    THEN [bytes |-> items[key].value, found |-> TRUE, err |-> NoErr]
    ELSE [bytes |-> NilBytes, found |-> FALSE, err |-> NoErr]

\* Caller t enters GetFromCache.
CoGetFromCache(t, id, prefixKey, exp) ==
    /\ w[t].pc = "idle"
    /\ w' = [w EXCEPT ![t] = [IdleCall EXCEPT !.pc = "get", !.id = id,
                                              !.prefixKey = prefixKey,
                                              !.key = CacheKey(prefixKey, id), !.exp = exp]]
    /\ UNCHANGED <<items, now, last, hist, others>>

\* CoGet in a wrapper that lets one caller fetch: a caller that misses while another
\* caller is fetching the key returns nothing.
CoGet_Coalesces(t) ==
    /\ w[t].pc = "get"
    /\ LET o    == MemGet(w[t].key)
           u    == Unmarshal(o.bytes)
           call == CallRec("Get", w[t].key, o.bytes, 0, NilData, o.found, o.err)
           rec  == [w[t] EXCEPT !.calls = Append(@, call),
                                !.err = IF o.found THEN u.err ELSE o.err]
       IN  /\ w' = [w EXCEPT ![t] =
                       IF o.found /\ u.err = NoErr THEN Return(rec, u.val, NoErr)
                       ELSE IF \E c \in Callers \ {t} : w[c].pc \in {"source", "store"}
                       THEN Return(rec, NilData, NoErr)
                       ELSE [rec EXCEPT !.pc = "source"]]
           /\ items' = IF w[t].key \in DOMAIN items /\ ~o.found
                       THEN MapDelete(items, w[t].key) ELSE items
    /\ UNCHANGED <<now, last, hist, others>>

\* bytesFromCache, found, err := repo.Get(ctx, key) on the MemoryCache, and the decoding
\* of a hit.
CoGet(t) ==
    /\ w[t].pc = "get"
    /\ LET o    == MemGet(w[t].key)
           u    == Unmarshal(o.bytes)
           call == CallRec("Get", w[t].key, o.bytes, 0, NilData, o.found, o.err)
           rec  == [w[t] EXCEPT !.calls = Append(@, call),
                                !.err = IF o.found THEN u.err ELSE o.err]
       IN  /\ w' = [w EXCEPT ![t] = IF o.found /\ u.err = NoErr
                                    THEN Return(rec, u.val, NoErr)
                                    ELSE [rec EXCEPT !.pc = "source"]]
           /\ items' = IF w[t].key \in DOMAIN items /\ ~o.found
                       THEN MapDelete(items, w[t].key) ELSE items
    /\ UNCHANGED <<now, last, hist, others>>

\* dataFromSource, err := fnCacheable(ctx, id), up to the store.
CoSource(t) ==
    /\ w[t].pc = "source"
    /\ \E o \in CoSourceOutcomes :
        LET call == CallRec("Source", <<>>, NilBytes, 0, o.val, FALSE, o.err)
            rec  == [w[t] EXCEPT !.calls = Append(@, call),
                                 !.err = o.err, !.dataFromSource = o.val]
            m    == Marshal(o.val)
        IN  w' = [w EXCEPT ![t] =
                    IF o.err # NoErr
                    THEN Return([rec EXCEPT !.errType = "call fnCacheable"], NilData, o.err)
                    ELSE IF o.val = NilData
                    THEN Return(rec, NilData, NoErr)
                    ELSE IF w[t].exp < 0
                    THEN Return(rec, o.val, NoErr)
                    ELSE IF m.err # NoErr
                    THEN Return([rec EXCEPT !.err = m.err,
                                            !.errType = "json.Marshal dataFromSource"],
                                NilData, m.err)
                    ELSE [rec EXCEPT !.bytesFromSource = m.bytes, !.pc = "store"]]
    /\ UNCHANGED <<items, now, last, hist, others>>

\* repo.StoreWithoutTTL or repo.Store on the MemoryCache, then return dataFromSource, nil.
CoStore(t) ==
    LET c    == w[t]
        op   == IF c.exp = 0 THEN "StoreWithoutTTL" ELSE "Store"
        call == CallRec(op, c.key, c.bytesFromSource, c.exp, NilData, FALSE, NoErr)
        rec  == [c EXCEPT !.calls = Append(@, call), !.err = NoErr,
                          !.errType = IF c.exp = 0 THEN "call cache.StoreWithoutTTL"
                                                   ELSE "call cache.Store"]
    IN  /\ c.pc = "store"
        /\ items' = MapSet(items, c.key,
                           CacheItem(c.bytesFromSource,
                                     IF c.exp = 0 THEN ZeroTime ELSE now + c.exp))
        /\ last' = CallArg(op, c.key, <<c.bytesFromSource>>, RetErr(NoErr))
        /\ hist' = [hist EXCEPT ![c.key] =
                       IF c.exp = 0 THEN Write(op, c.bytesFromSource, 0)
                       ELSE WriteTTL(op, c.bytesFromSource, c.exp, 0)]
        /\ w' = [w EXCEPT ![t] = Return(rec, c.dataFromSource, NoErr)]
        /\ UNCHANGED <<now, others>>

\* The caller takes the result of caller t's call; t may call again.
CoReturn(t) ==
    /\ w[t].pc = "done"
    /\ w' = [w EXCEPT ![t] = IdleCall]
    /\ UNCHANGED <<items, now, last, hist, others>>


(***************************************************************************)
(* The list calls of MemoryCache and of MemcacheRepo made side by side:    *)
(* each step is the same call on both, items taking the one of MemoryCache *)
(* and mc the commands of MemcacheRepo.                                    *)
(***************************************************************************)
\* The map after LRem(key, count, value) on the map m.
LRemIn(m, key, count, value) ==
    LET values == IF key \in DOMAIN m THEN Split(m[key].value) ELSE <<>>
        result == LRemResult(values, count, value)
    IN  IF key \notin DOMAIN m \/ (Len(values) = 1 /\ values[1] = <<>>) THEN m
        ELSE IF Len(result) = 0 THEN MapDelete(m, key)
        ELSE MapSet(m, key, CacheItem(Join(result), ZeroTime))

\* The list that listOp decodes from the item the server holds.
McValues(key) ==
    IF McLive(key) /\ Len(mc.items[key].value) > 0 THEN ListValues(mc.items[key].value)
    ELSE <<>>

\* The server after listOp and LTrim have written values: m.Delete of an empty list, else
\* m.client.Set of the joined list.
McWriteList(key, values) ==
    IF Len(values) = 0
    THEN [items |-> MapDelete(mc.items, key), req |-> Received("delete", key)]
    ELSE ServerSet(key, Join(values), 0)

\* What MemcacheRepo.LRange returns.
McLRangeOf(key, start, end) ==
    IF McLive(key) THEN LRangeOf(mc.items, key, start, end) ELSE RetList(<<>>, NoErr)

PairLPush(key, value) ==
    /\ Len(IF key \in DOMAIN items THEN ListValues(items[key].value) ELSE <<>>) < MaxList
    /\ items' = LPushIn(items, key, value)
    /\ mc' = McWriteList(key, <<value>> \o McValues(key))
    /\ last' = CallArg("LPush", key, <<value>>, RetErr(NoErr))
    /\ UNCHANGED <<now, hist, w, repo, mu, th>>

PairLRem(key, count, value) ==
    /\ items' = LRemIn(items, key, count, value)
    /\ mc' = McWriteList(key, LRemResult(McValues(key), count, value))
    /\ last' = CallArg("LRem", key, <<count, value>>, RetErr(NoErr))
    /\ UNCHANGED <<now, hist, w, repo, mu, th>>

PairLTrim(key, start, end) ==
    /\ items' = LTrimIn(items, key, LRangeOf(items, key, start, end).values)
    /\ mc' = McWriteList(key, McLRangeOf(key, start, end).values)
    /\ last' = CallArg("LTrim", key, <<start, end>>, RetErr(NoErr))
    /\ UNCHANGED <<now, hist, w, repo, mu, th>>

PairDelete(key) ==
    /\ items' = MapDelete(items, key)
    /\ mc' = [items |-> MapDelete(mc.items, key), req |-> Received("delete", key)]
    /\ last' = Call("Delete", key, RetErr(NoErr))
    /\ UNCHANGED <<now, hist, w, repo, mu, th>>


(***************************************************************************)
(* List claims, on SpecList, SpecRange and SpecTrim.                       *)
(***************************************************************************)
\* The list the entry of k stands for in the map m: what the list calls decode.
ListAt(m, k) == IF k \in DOMAIN m THEN ListValues(m[k].value) ELSE <<>>

\* The entry of k was built by LPush calls alone since k was absent.
PushedOnly(k) == k \in DOMAIN items /\ hist[k].op = "LPush" /\ hist[k].n > 0

\* LRange(k, 0, -1) has just been called.
RangeAll(k) == Called("LRange", k) /\ last'.arg = <<0, -1>>

\* C11 as stated: after LPush(k, v1), ..., LPush(k, vn) on an absent key, for any element
\* values, LRange(k, 0, -1) returns [vn, ..., v1].
LPushNewestFirstAnyValue ==
    [][\A k \in ListKeys :
         RangeAll(k) /\ PushedOnly(k)
            => last'.ret.err = NoErr /\ last'.ret.values = hist[k].elems]_vars

\* No element holds the delimiter, and the first one pushed is not the empty string.
Encodable(elems) ==
    /\ \A i \in 1 .. Len(elems) : Commas(elems[i]) = {}
    /\ elems # <<>> => elems[Len(elems)] # <<>>

\* C11, amended: after LPush(k, v1), ..., LPush(k, vn) on an absent key, where no element
\* contains a comma and v1 is not the empty string, LRange(k, 0, -1) returns
\* [vn, ..., v1], all n pushed elements, newest first.
LPushNewestFirst ==
    [][\A k \in ListKeys :
         RangeAll(k) /\ PushedOnly(k) /\ Encodable(hist[k].elems)
            => last'.ret.err = NoErr /\ last'.ret.values = hist[k].elems]_vars

\* Three pushes, one of them of the empty string, read back newest first.
LPushNewestFirstWitness ==
    /\ last.op = "LRange" /\ last.arg = <<0, -1>>
    /\ last.key \in DOMAIN items
    /\ hist[last.key].op = "LPush" /\ hist[last.key].n >= 3
    /\ Encodable(hist[last.key].elems)
    /\ \E i \in 1 .. Len(hist[last.key].elems) : hist[last.key].elems[i] = <<>>
    /\ last.ret.values = hist[last.key].elems

Max(a, b) == IF a >= b THEN a ELSE b

\* The reference normalization of a range over the list L of n >= 1 elements.
RefRange(L, start, end) ==
    LET n == Len(L)
        s == IF start < 0 THEN Max(0, n + start) ELSE start
        e == IF end < 0 THEN Max(0, n + end) ELSE end
        c == IF e >= n THEN n - 1 ELSE e
    IN  IF s > c THEN <<>> ELSE [i \in 1 .. (c - s + 1) |-> L[s + i]]

\* C12: for every stored list and all integers start and end, LRange returns what the
\* reference normalization gives, without an error and without indexing outside the list;
\* an absent key or an empty stored value gives the empty sequence.
LRangeNormalizes ==
    [][\A k \in ListKeys :
         Called("LRange", k)
            => /\ last'.ret.err = NoErr
               /\ last'.ret.values =
                     IF ListAt(items, k) = <<>> THEN <<>>
                     ELSE RefRange(ListAt(items, k), last'.arg[1], last'.arg[2])]_vars

\* A range from a negative start to an end beyond the list, over a list of three.
LRangeNormalizesWitness ==
    /\ last.op = "LRange"
    /\ last.arg[1] < 0 /\ last.arg[1] > MinInt64 /\ last.arg[2] = MaxInt64
    /\ Len(ListAt(items, last.key)) = MaxList
    /\ Len(last.ret.values) = 2

\* The positions of v in L.
Matches(L, v) == {i \in 1 .. Len(L) : L[i] = v}

\* The n least and the n greatest members of the set S of positions.
FirstOf(S, n) == {i \in S : Cardinality({j \in S : j < i}) < n}

LastOf(S, n) == {i \in S : Cardinality({j \in S : j > i}) < n}

\* L without the positions in S, the order of the rest unchanged.
Without(L, S) ==
    LET kept == (1 .. Len(L)) \ S
    IN  [j \in 1 .. Cardinality(kept) |->
            L[CHOOSE i \in kept : Cardinality({x \in kept : x <= i}) = j]]

\* |count|, capped at the greatest int64: a list has fewer elements than that.
Magnitude(count) ==
    IF count = MinInt64 THEN MaxInt64 ELSE IF count < 0 THEN -count ELSE count

\* What LRem(k, count, v) is to leave of L.
LRemLeaves(L, count, v) ==
    LET m == Matches(L, v)
        n == IF Magnitude(count) < Cardinality(m) THEN Magnitude(count) ELSE Cardinality(m)
    IN  IF count > 0 THEN Without(L, FirstOf(m, n))
        ELSE IF count < 0 THEN Without(L, LastOf(m, n))
        ELSE Without(L, m)

\* C13: LRem(k, count, v) on list L leaves L without its first min(count, #matches)
\* occurrences of v for count > 0, without its last min(|count|, #matches) for count < 0,
\* without any for count = 0, the rest in order; the key is deleted when nothing remains.
LRemRemoves ==
    [][\A k \in ListKeys :
         Called("LRem", k)
            => LET R == LRemLeaves(ListAt(items, k), last'.arg[1], last'.arg[2])
               IN  /\ ListAt(items', k) = R
                   /\ R = <<>> => k \notin DOMAIN items']_vars

\* What LRange(k, start, end) returns just before the LTrim call that last' records.
Trimmed(k) == LRangeOf(items, k, last'.arg[1], last'.arg[2]).values

\* The last write to k is an LTrim that deleted the key.
TrimmedAway(k) == hist[k].op = "LTrim" /\ hist[k].value = NilBytes

\* What follows an LTrim that deleted the key: Get finds nothing, LRange(k, 0, -1) is empty.
AfterTrimmedAway(k) ==
    /\ Called("Get", k) /\ TrimmedAway(k) => ~last'.ret.found
    /\ RangeAll(k) /\ TrimmedAway(k) => last'.ret.values = <<>>

\* C14 as stated: without concurrent operations LTrim(k, start, end) replaces the list at k
\* by what LRange(k, start, end) returned just before; LTrim(k, 0, 0) on a non-empty list
\* leaves its head element; an empty range result deletes the key, so that a following
\* Get(k) finds nothing and LRange(k, 0, -1) returns empty.
LTrimKeepsRangeAnyValue ==
    [][\A k \in ListKeys :
         /\ Called("LTrim", k)
               => /\ ListAt(items', k) = Trimmed(k)
                  /\ Trimmed(k) = <<>> => k \notin DOMAIN items'
                  /\ last'.arg = <<0, 0>> /\ ListAt(items, k) # <<>>
                        => ListAt(items', k) = <<Head(ListAt(items, k))>>
         /\ AfterTrimmedAway(k)]_vars

\* The list of one element that is the empty string.
OneEmpty == << <<>> >>

\* C14, amended: without concurrent operations LTrim(k, start, end) replaces the list at k
\* by what LRange(k, start, end) returned just before, unless that result is the single
\* element "": then the key stays with the empty value, which reads back as the empty
\* list.  LTrim(k, 0, 0) on a non-empty list whose head is not "" leaves its head element;
\* an empty range result deletes the key, so that a following Get(k) finds nothing and
\* LRange(k, 0, -1) returns empty.
LTrimKeepsRange ==
    [][\A k \in ListKeys :
         /\ Called("LTrim", k)
               => /\ Trimmed(k) # OneEmpty => ListAt(items', k) = Trimmed(k)
                  /\ Trimmed(k) = OneEmpty
                        => k \in DOMAIN items' /\ items'[k].value = <<>>
                              /\ ListAt(items', k) = <<>>
                  /\ Trimmed(k) = <<>> => k \notin DOMAIN items'
                  /\ last'.arg = <<0, 0>> /\ ListAt(items, k) # <<>>
                        /\ Head(ListAt(items, k)) # <<>>
                        => ListAt(items', k) = <<Head(ListAt(items, k))>>
         /\ AfterTrimmedAway(k)]_vars

\* LTrim(k, 0, 0) has cut a list of three down to its head.
LTrimKeepsRangeWitness ==
    /\ last.op = "LTrim" /\ last.arg = <<0, 0>>
    /\ hist[last.key].op = "LTrim"
    /\ ListAt(items, last.key) = hist[last.key].elems
    /\ Len(hist[last.key].elems) = 1 /\ hist[last.key].elems # OneEmpty

(***************************************************************************)
(* KeysByPattern claims, on SpecKeys.                                      *)
(***************************************************************************)
\* KeysByPattern(p) has just been called.
SearchedFor(p) == last'.seq # last.seq /\ last'.op = "KeysByPattern" /\ last'.arg = <<p>>

\* The pattern is a well-formed glob.
WellFormed(p) == ~ScanPattern(p).err

\* No entry of the map has expired.
NoneExpired == \A k \in DOMAIN items : ~Expired(items[k], now)

\* The members of the sequence s.
Range(s) == {s[i] : i \in 1 .. Len(s)}

\* C15: when no stored entry has expired, KeysByPattern(p) for a well-formed glob p
\* returns each stored key that matches p exactly once and no other key, and leaves the
\* map unchanged.
KeysMatchPattern ==
    [][\A p \in Patterns :
         SearchedFor(p) /\ WellFormed(p) /\ NoneExpired
            => /\ last'.ret.err = NoErr
               /\ Range(last'.ret.values) = {k \in DOMAIN items : Match(p, k).matched}
               /\ Len(last'.ret.values) = Cardinality(Range(last'.ret.values))
               /\ items' = items]_vars

\* "t:*" has found both t: keys among four stored ones, one of them with a TTL.
KeysMatchPatternWitness ==
    /\ last.op = "KeysByPattern" /\ last.arg = << <<"t", ":", "*">> >>
    /\ DOMAIN items = PatternKeys
    /\ NoneExpired /\ \E k \in DOMAIN items : items[k].expiresAt # ZeroTime
    /\ Range(last.ret.values) = {<<"t", ":", "1">>, <<"t", ":", "2">>}
    /\ Len(last.ret.values) = 2

\* C16: KeysByPattern(p) with a malformed pattern p returns an error in every reachable
\* state of the cache, a fresh or emptied one included.
BadPatternIsError ==
    [][\A p \in Patterns :
         SearchedFor(p) /\ ~WellFormed(p) => last'.ret.err # NoErr]_vars

(***************************************************************************)
(* MemcacheRepo claims, on SpecMemcache.                                   *)
(***************************************************************************)
\* C17: on the memcache backend KeysByPattern returns an error and no keys for every
\* pattern and in every state, and neither sends the server a command nor changes an item.
McKeysUnsupported ==
    [][\A p \in Patterns :
         SearchedFor(p)
            => last'.ret.err # NoErr /\ last'.ret.values = <<>> /\ mc' = mc]_vars

\* "t:*" was searched for while the server held a live item under t:1.
McKeysUnsupportedWitness ==
    /\ last.op = "KeysByPattern" /\ last.arg = << <<"t", ":", "*">> >>
    /\ McLive(<<"t", ":", "1">>)
    /\ last.ret.err # NoErr /\ last.ret.values = <<>>

(***************************************************************************)
(* Locking claims, on SpecLock.                                            *)
(***************************************************************************)
\* Thread t takes a step.
Steps(t) == th'[t] # th[t]

\* Thread t is at a write of m.items.
AtWrite(t) ==
    \/ th[t].pc = "evict"
    \/ th[t].pc = "body" /\ th[t].op \in LockOps

\* Two threads are at accesses to m.items at the same time, one of them a write.
MapRace == \E t \in Threads : AtWrite(t) /\ Racing(t)

\* C18: every write to the map is made by a thread holding the exclusive lock, the calls
\* holding the shared lock never modify the map, and no two threads are at accesses to
\* the map at the same time with one of them writing.
WritesUnderLock ==
    [][/\ items' # items => \E t \in Threads : Steps(t) /\ mu.writer = t
       /\ \A t \in Threads : Steps(t) /\ th[t].op \in RLockOps => items' = items
       /\ ~MapRace']_vars

(***************************************************************************)
(* NocacheRepo claims, on SpecNocache.                                     *)
(***************************************************************************)
\* The finished wrapper call invoked the source once and returned what it returned: its
\* error, and its value when the error is nil.
ReturnsSourceResult ==
    Done =>
        /\ Len(SourceCalls) = 1
        /\ w.ret.err = SourceCalls[1].err
        /\ SourceCalls[1].err = NoErr => w.ret.val = SourceCalls[1].arg

\* C19: with the no-op backend Get returns (nil, false, nil) after any sequence of
\* operations, a Store or StoreWithoutTTL of the same key included; so every GetFromCache
\* and GetFromCacheWithDynamicTTL call over it invokes the source exactly once and
\* returns its result.
NocacheAlwaysFetches ==
    [][/\ \A k \in MemKeys : Called("Get", k) => last'.ret = Ret(NilBytes, FALSE, NoErr, 0)
       /\ ReturnsSourceResult']_vars

(***************************************************************************)
(* The TTL function of GetFromCacheWithDynamicTTL, on SpecWrapper.         *)
(***************************************************************************)
IsTtlCall(c) == c.op = "GetTtl"

TtlCalls == SelectSeq(w.calls, IsTtlCall)

\* The source answered with a value and no error.
IsFetch(c) == c.op = "Source" /\ c.err = NoErr /\ c.arg # NilData

\* C20: in GetFromCacheWithDynamicTTL the TTL function is invoked at most once per call,
\* only after the source returned a non-nil value without error and with that value as
\* its argument; never on a cache hit, on a source error, or for a nil value.
TtlFnAfterFetch ==
    w.variant = "dynamic" =>
        /\ Len(TtlCalls) <= 1
        /\ \A i \in 1 .. Len(w.calls) :
              IsTtlCall(w.calls[i]) =>
                 \E j \in 1 .. (i - 1) :
                    IsFetch(w.calls[j]) /\ w.calls[i].arg = w.calls[j].arg
        /\ (\E i \in 1 .. Len(w.calls) :
                \/ w.calls[i].op = "Get" /\ w.calls[i].found
                      /\ Unmarshal(w.calls[i].bytes).err = NoErr
                \/ w.calls[i].op = "Source" /\ ~IsFetch(w.calls[i]))
              => Len(TtlCalls) = 0

\* A dynamic call fetched d2 after a miss and asked the TTL function about d2, once.
TtlFnAfterFetchWitness ==
    /\ Done /\ w.variant = "dynamic"
    /\ Fetched /\ FetchedValue = "d2"
    /\ Len(TtlCalls) = 1 /\ TtlCalls[1].arg = "d2"

(***************************************************************************)
(* Concurrency claims on MemoryCache, on SpecTrimRace and SpecCount.       *)
(***************************************************************************)
\* The map before the first goroutine entered its call: the lists pushed until then.
BeforeRace ==
    [k \in {j \in LockKeys : hist[j].op = "LPush"} |-> CacheItem(hist[k].value, ZeroTime)]

\* The map after the call of thread t has run alone on the map m.
After(t, m) ==
    LET c == th[t]
    IN  CASE c.op = "LTrim" ->
                LTrimIn(m, c.key, LRangeOf(m, c.key, c.arg[1], c.arg[2]).values)
          [] c.op = "LPush" -> LPushIn(m, c.key, c.arg[1])
          [] c.op = "Store" -> MapSet(m, c.key, CacheItem(c.arg[1], now + c.arg[2]))
          [] c.op = "Delete" -> MapDelete(m, c.key)
          [] OTHER -> m

\* C21: when LTrim(k, s, e) has run concurrently with one LPush, Store or Delete of k, the
\* map is what running the two calls one after the other, in one of the two orders, leaves.
LTrimSerializable ==
    (Returned(1) /\ Returned(2) /\ (\E t \in Threads : th[t].op = "LTrim"))
        => items \in {After(2, After(1, BeforeRace)), After(1, After(2, BeforeRace))}


\* The goroutines whose increment has returned.
Counted == {t \in Callers : Returned(t)}

BothDid(op) == \A t \in Threads : Returned(t) /\ th[t].op = op

\* The two LPush calls pushed different elements.
TwoElems == th[1].arg[1] # th[2].arg[1]

\* C23: when two concurrent LPush calls on one key have returned, the stored value is the
\* value of the last Set the server ran, and that is the whole list one of the callers
\* wrote: its element in front of the list its own Get returned.
LastSetWins ==
    BothDid("LPush") =>
        \A k \in LockKeys :
            /\ k \in DOMAIN mc.items
            /\ last.op = "set" /\ mc.items[k].value = last.arg[1]
            /\ \E t \in Threads :
                  mc.items[k].value = Join(<<th[t].arg[1]>> \o McListRead(t))

\* The lost update: two different elements were pushed and the stored list is one element.
LastSetWinsWitness ==
    /\ BothDid("LPush") /\ TwoElems
    /\ \E k \in LockKeys, t \in Threads :
          k \in DOMAIN mc.items /\ ListValues(mc.items[k].value) = <<th[t].arg[1]>>


\* C24: the TTL step of IncrementWithTTL never changes the counter, whatever increments
\* of other callers came before it: the value the key holds when the step runs is the
\* value it holds afterwards.
TtlStepKeepsCounter ==
    [][\A t \in Threads :
        (th[t].pc = "ttl" /\ th'[t].pc = "idle" /\ McLive(th[t].key)
            /\ \A u \in Threads : th[u].op \in {"Increment", "IncrementWithTTL"})
            => /\ th[t].key \in DOMAIN mc'.items
               /\ mc'.items[th[t].key].value = mc.items[th[t].key].value]_vars

\* C25: concurrent Increment calls of MemcacheRepo on an absent key return the distinct
\* values 1..n and leave the counter at n.
McIncrementsNotLost ==
    BothDid("Increment") =>
        /\ {th[t].ret.n : t \in Threads} = 1 .. Cardinality(Threads)
        /\ \A k \in LockKeys :
              k \in DOMAIN mc.items
                  /\ mc.items[k].value = int64ToBytes(Cardinality(Threads))


(***************************************************************************)
(* Concurrent wrapper calls, on SpecCo.  The key starts absent and the     *)
(* clock stands still, so a Get misses exactly when no store came before.  *)
(***************************************************************************)
\* The source and store calls that caller t made.
CoSourceCalls(t) == SelectSeq(w[t].calls, IsSourceCall)

CoStoreCalls(t) == SelectSeq(w[t].calls, IsStoreCall)

\* Every caller has returned, and every caller's Get came before any store.
AllMissed ==
    \A t \in Callers :
        w[t].pc = "done" /\ w[t].calls[1].op = "Get" /\ ~w[t].calls[1].found

\* The source gave caller t a non-nil value that serializes, to be cached.
CoCacheable(t) ==
    /\ w[t].exp >= 0
    /\ Len(CoSourceCalls(t)) = 1
    /\ CoSourceCalls(t)[1].err = NoErr
    /\ CoSourceCalls(t)[1].arg # NilData
    /\ Marshal(CoSourceCalls(t)[1].arg).err = NoErr

\* The entry of the callers' key holds what the last store call wrote.
LastStoreCached ==
    /\ last.op \in {"Store", "StoreWithoutTTL"}
    /\ last.key \in DOMAIN items
    /\ items[last.key].value = last.arg[1]

\* C26 as stated: when all callers did their Get before any store, all of them invoke the
\* source, all of them issue a store, and the value cached is that of the last store.
NoCoalescingAnySource ==
    AllMissed =>
        /\ \A t \in Callers : Len(CoSourceCalls(t)) = 1 /\ Len(CoStoreCalls(t)) = 1
        /\ LastStoreCached

\* C26: when all callers did their Get before any store, all of them invoke the source;
\* each caller whose source returned a non-nil serializable value, with a TTL that is not
\* negative, issues one store of that value, the others none; and after a store the value
\* cached is the one the last store wrote.
NoCoalescing ==
    AllMissed =>
        /\ \A t \in Callers :
              /\ Len(CoSourceCalls(t)) = 1
              /\ Len(CoStoreCalls(t)) = IF CoCacheable(t) THEN 1 ELSE 0
              /\ CoCacheable(t) =>
                    CoStoreCalls(t)[1].bytes = Marshal(CoSourceCalls(t)[1].arg).bytes
        /\ (\E t \in Callers : CoCacheable(t)) => LastStoreCached

\* All callers missed, fetched and stored, not all the same value.
NoCoalescingWitness ==
    /\ AllMissed
    /\ \A t \in Callers : CoCacheable(t)
    /\ \E t \in Callers, u \in Callers :
          CoStoreCalls(t)[1].bytes # CoStoreCalls(u)[1].bytes
    /\ LastStoreCached


(***************************************************************************)
(* Claims about the wrapper's failure paths, on SpecWrapper.               *)
(***************************************************************************)
\* The backend Get of the finished call reported found with bytes that do not decode.
GotUndecodable == Done /\ w.calls[1].found /\ Unmarshal(w.calls[1].bytes).err # NoErr

\* C27: in both variants, when the backend reports found but the bytes do not decode, the
\* call goes on as on a miss: the source function is invoked, and its non-nil result is
\* returned with a nil error and stored under the same key by the TTL policy.
UndecodableIsMiss ==
    GotUndecodable =>
        /\ Len(SourceCalls) = 1
        /\ Fetched => /\ w.ret = [val |-> FetchedValue, err |-> NoErr]
                      /\ StoresMade = StoresWanted

\* The source answered with nil and no error.
FetchedNil ==
    Done /\ Len(SourceCalls) >= 1 /\ SourceCalls[1].err = NoErr
        /\ SourceCalls[1].arg = NilData

\* C28: in both variants, when the source function succeeds with a nil value the call
\* returns (nil, nil) and calls neither Store, StoreWithoutTTL nor the TTL function: the
\* source call is the last call it makes, so the backend is left as the Get found it.
NilNotCached ==
    FetchedNil =>
        /\ w.ret = [val |-> NilData, err |-> NoErr]
        /\ Len(StoreCalls) = 0
        /\ Len(TtlCalls) = 0
        /\ Len(w.calls) = 2 /\ w.calls[2].op = "Source"
        /\ ~w.logged

\* The dynamic variant got nil from the source after a hit that did not decode.
NilNotCachedWitness ==
    FetchedNil /\ w.variant = "dynamic" /\ GotUndecodable

\* The one store call of the finished call failed.
StoreFailed == Done /\ Len(StoreCalls) >= 1 /\ StoreCalls[1].err # NoErr

\* C29: in both variants, when Store or StoreWithoutTTL fails after the source returned a
\* non-nil value, the call returns the fetched value with a nil error; the store is the
\* last call, made once, and its error shows only in the logged record.
StoreFailureOnlyLogged ==
    StoreFailed =>
        /\ Fetched
        /\ w.ret = [val |-> FetchedValue, err |-> NoErr]
        /\ Len(StoreCalls) = 1
        /\ IsStoreCall(w.calls[Len(w.calls)])
        /\ w.err = StoreCalls[1].err /\ w.logged
        /\ w.errType = (IF StoreCalls[1].op = "Store" THEN "call cache.Store"
                        ELSE "call cache.StoreWithoutTTL")

\* Both store calls have failed: StoreWithoutTTL in the dynamic variant here.
StoreFailureOnlyLoggedWitness ==
    StoreFailed /\ w.variant = "dynamic" /\ StoreCalls[1].op = "StoreWithoutTTL"
        /\ w.ret.val = "d2"


(***************************************************************************)
(* Expired entries and the list calls, on SpecExpiry.                      *)
(***************************************************************************)
\* The entry of k has an expiry time that has passed.
Stale(m, k) == k \in DOMAIN m /\ Expired(m[k], now)

\* C30: an entry whose expiry time has passed is not observable through the list calls and
\* KeysByPattern: LRange of its key returns no values, KeysByPattern does not list the
\* key, LPush starts a new list, and LRem and LTrim leave no live entry for the key.
ExpiredNeverObserved ==
    [][\A k \in ListKeys :
        Stale(items, k) =>
            /\ Called("LRange", k) => last'.ret.values = <<>>
            /\ (last'.seq # last.seq /\ last'.op = "KeysByPattern")
                  => \A i \in 1 .. Len(last'.ret.values) : last'.ret.values[i] # k
            /\ Called("LPush", k) => items'[k].value = last'.arg[1]
            /\ (Called("LRem", k) \/ Called("LTrim", k))
                  => (k \notin DOMAIN items' \/ Stale(items', k))]_vars


(***************************************************************************)
(* A series of wrapper calls over the MemoryCache, on SpecSeq.             *)
(***************************************************************************)
\* An earlier store of k is still unexpired: the latest store asked for an expiry that
\* the clock has not passed.
StoreUnexpired(k) == hist[k].op = "Store" /\ now <= Deadline(k)

\* Caller t's backend Get happens in this step.
CoGot(t) == w[t].pc = "get" /\ w'[t].pc # "get"

\* C31: over the in-process backend with TTL > 0, a GetFromCache call of a series for one
\* key invokes the source exactly when no earlier store of the key is still unexpired at
\* the call; every other call returns the decoded stored value and calls nothing else.
SourceIffNoLiveStore ==
    [][\A t \in Callers :
        CoGot(t) =>
            IF StoreUnexpired(w[t].key)
            THEN /\ w'[t].pc = "done"
                 /\ w'[t].ret = [val |-> Unmarshal(hist[w[t].key].value).val, err |-> NoErr]
                 /\ Unmarshal(hist[w[t].key].value).err = NoErr
                 /\ Len(w'[t].calls) = 1
            ELSE w'[t].pc = "source"]_vars

\* A call of the series has gone to the source because the TTL of the latest store, made
\* by an earlier call, has elapsed.
SourceIffNoLiveStoreWitness ==
    \E t \in Callers :
        /\ w[t].pc = "source"
        /\ hist[w[t].key].op = "Store" /\ now > Deadline(w[t].key)
        /\ last.op = "Store"


(***************************************************************************)
(* MemcacheRepo against MemoryCache on the list calls, on SpecPair.        *)
(***************************************************************************)
\* C32: after any sequence of LPush, LRem, LTrim and Delete made on both backends from
\* the empty state, every key is present on both or on neither, and LRange of the key
\* returns the same values on both for every start and end.
BackendsAgreeOnLists ==
    \A k \in ListKeys :
        /\ k \in DOMAIN items <=> McLive(k)
        /\ \A s \in RaceIndexes, e \in RaceIndexes :
              LRangeOf(items, k, s, e) = McLRangeOf(k, s, e)


(***************************************************************************)
(* Writes that discard an expiry, on SpecDiscard.                          *)
(***************************************************************************)
\* The calls that store an entry with no expiry whatever the entry had.
Discarding == {"Increment", "LPush", "LRem", "LTrim"}

\* This step is a call on k that wrote the entry of k: Increment and LPush always do; LTrim
\* does unless it deletes the key; LRem does unless the key is absent, holds no element or
\* loses its last one.
Wrote(k) ==
    \/ Called("Increment", k) \/ Called("LPush", k)
    \/ Called("LTrim", k) /\ k \in DOMAIN items'
    \/ Called("LRem", k) /\ k \in DOMAIN items /\ ListValues(items[k].value) # <<>>
          /\ k \in DOMAIN items'

\* C33: whenever Increment, LPush, LRem or LTrim writes key k, the entry it stores has no
\* expiry, also when the entry had one and when LRem removed nothing; and a Get of k that
\* follows, at whatever time, with no other write or delete of k in between, reports found
\* with the value written.
WritesDiscardExpiry ==
    [][\A k \in ListKeys :
        /\ Wrote(k) => k \in DOMAIN items' /\ items'[k].expiresAt = ZeroTime
        /\ (Called("Get", k) /\ hist[k].op \in Discarding /\ k \in DOMAIN items)
              => /\ last'.ret = Ret(items[k].value, TRUE, NoErr, 0)
                 /\ items' = items]_vars

\* An LRem that removed nothing has rewritten the list stored with a TTL as an entry with
\* no expiry, at a time when that TTL had already passed or was about to.
WritesDiscardExpiryWitness ==
    /\ last.op = "LRem" /\ last.arg[2] = <<"x">>
    /\ now = MaxTime
    /\ \E k \in ListKeys :
          k \in DOMAIN items /\ items[k] = CacheItem(<<"a", ",", "b">>, ZeroTime)


(***************************************************************************)
(* The expiration MemcacheRepo.Store sends, on SpecMemcache.               *)
(***************************************************************************)
\* C34: Store(k, v, ttl) of MemcacheRepo with ttl > 0, also below a second, leaves the
\* item expiring at now + ttl, never as an item without expiry.
StoreSendsPositiveExpiry ==
    [][\A k \in MemKeys :
        (Called("Store", k) /\ last'.arg[2] > 0)
            => /\ k \in DOMAIN mc'.items
               /\ mc'.items[k].expiresAt # ZeroTime
               /\ mc'.items[k].expiresAt = now + last'.arg[2]]_vars


(***************************************************************************)
(* Specifications.                                                         *)
(***************************************************************************)
MemNext ==
    \/ \E k \in MemKeys, v \in StoreValues, e \in TTLs : Store(k, v, e)
    \/ \E k \in MemKeys, v \in StoreValues : StoreWithoutTTL(k, v)
    \/ \E k \in MemKeys : Get(k)
    \/ \E k \in MemKeys : Delete(k)
    \/ \E k \in MemKeys : Increment(k)
    \/ \E k \in MemKeys, e \in TTLs : IncrementWithTTL(k, e)
    \/ Tick

\* The in-process backend, called by one client at a time while the clock advances.
MemInit ==
    /\ NewMemoryCache
    /\ w = IdleCall
    /\ repo = "mock"
    /\ mc = NewMemcache
    /\ mu = Unlocked
    /\ th = [t \in Threads |-> IdleThread]

SpecMem == MemInit /\ [][MemNext]_vars

WrapperNext ==
    \/ \E id \in Ids, p \in Prefixes, e \in WrapTTLs :
            GetFromCache("fixed", id, p, e, IdleCall.fnGetTtl)
    \/ \E id \in Ids, p \in Prefixes, f \in TtlFns :
            GetFromCache("dynamic", id, p, 0, f)
    \/ WrapperGet
    \/ WrapperSource
    \/ WrapperGetTtl
    \/ WrapperStore
    \/ WrapperReturn

\* The wrapper, called over a backend that answers as the CacheRepo contract allows.
SpecWrapper == MemInit /\ [][WrapperNext]_vars

ListNext ==
    \/ \E k \in ListKeys, v \in ListElems : LPush(k, v)
    \/ \E k \in ListKeys : LRange(k, 0, -1)
    \/ \E k \in ListKeys, c \in Counts, v \in ListElems : LRem(k, c, v)
    \/ \E k \in ListKeys : Delete(k)

\* One caller pushing to, removing from and reading whole the lists of a fresh MemoryCache.
SpecList == MemInit /\ [][ListNext]_vars

RangeNext ==
    \/ \E k \in ListKeys, v \in RangeElems : LPush(k, v)
    \/ \E k \in ListKeys, s \in Indexes, e \in Indexes : LRange(k, s, e)
    \/ \E k \in ListKeys : Delete(k)

\* One caller reading every range of the lists it pushed.
SpecRange == MemInit /\ [][RangeNext]_vars

TrimNext ==
    \/ \E k \in ListKeys, v \in RangeElems : LPush(k, v)
    \/ \E k \in ListKeys, s \in Indexes, e \in Indexes : LTrim(k, s, e)
    \/ \E k \in ListKeys : LRange(k, 0, -1)
    \/ \E k \in ListKeys : Get(k)

\* One caller trimming the lists it pushed and reading what is left.
SpecTrim == MemInit /\ [][TrimNext]_vars

KeysNext ==
    \/ \E k \in PatternKeys : StoreWithoutTTL(k, <<"x">>)
    \/ \E k \in ExpiringKeys : Store(k, <<"x">>, MaxTTL)
    \/ \E p \in Patterns : KeysByPattern(p)
    \/ Close
    \/ Tick

\* One caller storing keys, searching them by pattern and closing the cache.
SpecKeys == MemInit /\ [][KeysNext]_vars

MemcacheNext ==
    \/ \E k \in MemKeys, v \in StoreValues, e \in McTTLs : McStore(k, v, e)
    \/ \E k \in MemKeys, v \in StoreValues : McStoreWithoutTTL(k, v)
    \/ \E k \in MemKeys : McGet(k)
    \/ \E k \in MemKeys : McDelete(k)
    \/ \E p \in Patterns : McKeysByPattern(p)
    \/ Tick

\* One caller of MemcacheRepo over a reliable server.
SpecMemcache == MemInit /\ [][MemcacheNext]_vars

LockNext ==
    \/ \E t \in Threads, k \in LockKeys : Enter(t, "Store", k, <<<<"x">>, MaxTTL>>)
    \/ \E t \in Threads, k \in LockKeys : Enter(t, "Delete", k, <<>>)
    \/ \E t \in Threads, k \in LockKeys : Enter(t, "Get", k, <<>>)
    \/ \E t \in Threads, k \in LockKeys : Enter(t, "LRange", k, <<0, -1>>)
    \/ \E t \in Threads : Enter(t, "KeysByPattern", <<>>, << <<"t", ":", "*">> >>)
    \/ \E t \in Threads : Lock(t)
    \/ \E t \in Threads : RLock(t)
    \/ \E t \in Threads : Unlock(t)
    \/ \E t \in Threads : RUnlock(t)
    \/ \E t \in Threads : StoreBody(t)
    \/ \E t \in Threads : DeleteBody(t)
    \/ \E t \in Threads : GetRead(t)
    \/ \E t \in Threads : GetEvict(t)
    \/ \E t \in Threads : LRangeBody(t)
    \/ \E t \in Threads : KeysByPatternBody(t)
    \/ Tick

\* Several goroutines calling one MemoryCache.
SpecLock == MemInit /\ [][LockNext]_vars

NocacheNext ==
    \/ \E k \in MemKeys, v \in StoreValues, e \in TTLs : NocacheStore(k, v, e)
    \/ \E k \in MemKeys, v \in StoreValues : NocacheStoreWithoutTTL(k, v)
    \/ \E k \in MemKeys : NocacheGet(k)
    \/ WrapperNext

NocacheInit ==
    /\ NewMemoryCache
    /\ w = IdleCall
    /\ repo = "nocache"
    /\ mc = NewMemcache
    /\ mu = Unlocked
    /\ th = [t \in Threads |-> IdleThread]

\* NocacheRepo called directly and through the wrapper.
SpecNocache == NocacheInit /\ [][NocacheNext]_vars

TrimRaceNext ==
    \/ \E k \in LockKeys, v \in RangeElems : Quiet /\ LPush(k, v)
    \/ \E t \in Threads, k \in LockKeys, s \in RaceIndexes, e \in RaceIndexes :
          th[t].op = "none" /\ Enter(t, "LTrim", k, <<s, e>>)
    \/ \E t \in Threads, k \in LockKeys, v \in RangeElems :
          th[t].op = "none" /\ Enter(t, "LPush", k, <<v>>)
    \/ \E t \in Threads, k \in LockKeys :
          th[t].op = "none" /\ Enter(t, "Store", k, <<<<"x">>, MaxTTL>>)
    \/ \E t \in Threads, k \in LockKeys : th[t].op = "none" /\ Enter(t, "Delete", k, <<>>)
    \/ \E t \in Threads : Lock(t)
    \/ \E t \in Threads : Unlock(t)
    \/ \E t \in Threads : StoreBody(t)
    \/ \E t \in Threads : DeleteBody(t)
    \/ \E t \in Threads : LPushBody(t)
    \/ \E t \in Threads : LTrimRLock(t)
    \/ \E t \in Threads : LTrimRange(t)
    \/ \E t \in Threads : LTrimRUnlock(t)
    \/ \E t \in Threads : LTrimLock(t)
    \/ \E t \in Threads : LTrimBody(t)

\* Two goroutines, each making one call on a list that was pushed before.
SpecTrimRace == MemInit /\ [][TrimRaceNext]_vars


CountNext ==
    \/ \E t \in Callers, k \in LockKeys : th[t].op = "none" /\ Enter(t, "Increment", k, <<>>)
    \/ \E t \in Callers, k \in LockKeys, e \in 1 .. MaxTTL :
          th[t].op = "none" /\ Enter(t, "IncrementWithTTL", k, <<e>>)
    \/ \E t \in Callers : Lock(t)
    \/ \E t \in Callers : IncrementRead(t)
    \/ \E t \in Callers : IncrementWrite(t)
    \/ \E t \in Callers : Unlock(t)
    \/ Tick

CountInit ==
    /\ NewMemoryCache
    /\ w = IdleCall
    /\ repo = "mock"
    /\ mc = NewMemcache
    /\ mu = Unlocked
    /\ th = [t \in Callers |-> IdleThread]

\* MaxCallers goroutines, each incrementing the same absent key once.
SpecCount == CountInit /\ [][CountNext]_vars


McRaceNext ==
    \/ \E t \in Threads, k \in LockKeys, v \in McElems :
          th[t].op = "none" /\ McEnter(t, "LPush", k, <<v>>)
    \/ \E t \in Threads, k \in LockKeys : th[t].op = "none" /\ McEnter(t, "Increment", k, <<>>)
    \/ \E t \in Threads, k \in LockKeys, e \in 1 .. MaxTTL :
          th[t].op = "none" /\ McEnter(t, "IncrementWithTTL", k, <<TicksPerSecond * e>>)
    \/ \E t \in Threads : McListGet(t)
    \/ \E t \in Threads : McListSet(t)
    \/ \E t \in Threads : McIncrGet(t)
    \/ \E t \in Threads : McIncrInit(t)
    \/ \E t \in Threads : McIncr(t)
    \/ \E t \in Threads : McIncrTTL(t)
    \/ Tick

\* Two goroutines, each making one call of MemcacheRepo on the same absent key.
SpecMcRace == MemInit /\ [][McRaceNext]_vars


CoNext ==
    \/ \E t \in Callers, e \in CoTTLs : CoGetFromCache(t, CoId, CoPrefix, e)
    \/ \E t \in Callers : CoGet(t)
    \/ \E t \in Callers : CoSource(t)
    \/ \E t \in Callers : CoStore(t)

CoInit ==
    /\ NewMemoryCache
    /\ w = [t \in Callers |-> IdleCall]
    /\ repo = "memory"
    /\ mc = NewMemcache
    /\ mu = Unlocked
    /\ th = [t \in Threads |-> IdleThread]

\* MaxCallers goroutines, each calling GetFromCache once for the same absent key.
SpecCo == CoInit /\ [][CoNext]_vars


\* The lists stored with a TTL.
ExpiringLists == {<<"a">>, <<"a", ",", "b">>}

ExpiryNext ==
    \/ \E k \in ListKeys, v \in ExpiringLists : Store(k, v, MaxTTL)
    \/ \E k \in ListKeys : Get(k)
    \/ \E k \in ListKeys : LRange(k, 0, -1)
    \/ \E k \in ListKeys : LPush(k, <<"b">>)
    \/ \E k \in ListKeys : LRem(k, 1, <<"a">>)
    \/ \E k \in ListKeys : LTrim(k, 0, 0)
    \/ KeysByPattern(<<"t", ":", "*">>)
    \/ Tick

\* One caller storing lists with a TTL and using them after the TTL has passed.
SpecExpiry == MemInit /\ [][ExpiryNext]_vars


SeqNext ==
    \/ \E id \in Ids, e \in 1 .. MaxTTL : CoGetFromCache(1, id, CoPrefix, e)
    \/ CoGet(1)
    \/ CoSource(1)
    \/ CoStore(1)
    \/ CoReturn(1)
    \/ Tick

\* One caller making GetFromCache calls for two identifiers, one call after the other,
\* while time passes.
SpecSeq == CoInit /\ [][SeqNext]_vars


PairNext ==
    \/ \E k \in ListKeys, v \in RangeElems : PairLPush(k, v)
    \/ \E k \in ListKeys, c \in {-1, 0, 1}, v \in RangeElems : PairLRem(k, c, v)
    \/ \E k \in ListKeys, s \in RaceIndexes, e \in RaceIndexes : PairLTrim(k, s, e)
    \/ \E k \in ListKeys : PairDelete(k)

\* One caller making every list call on a MemoryCache and on a MemcacheRepo alike.
SpecPair == MemInit /\ [][PairNext]_vars


DiscardNext ==
    \/ \E k \in ListKeys, v \in ExpiringLists \cup {<<>>} : Store(k, v, MaxTTL)
    \/ \E k \in ListKeys : IncrementWithTTL(k, MaxTTL)
    \/ \E k \in ListKeys : Increment(k)
    \/ \E k \in ListKeys : LPush(k, <<"b">>)
    \/ \E k \in ListKeys, c \in {0, 1}, v \in {<<"a">>, <<"x">>} : LRem(k, c, v)
    \/ \E k \in ListKeys, e \in {0, -1} : LTrim(k, 0, e)
    \/ \E k \in ListKeys : Get(k)
    \/ \E k \in ListKeys : Delete(k)
    \/ Tick

\* One caller writing entries with a TTL, rewriting them with the counter and list calls,
\* and reading them as time passes.
SpecDiscard == MemInit /\ [][DiscardNext]_vars


=============================================================================
